---- MODULE Spec2Model ----
(***************************************************************************)
(* Streaming client of the AI builder: extractPartialValue, the chunk      *)
(* loop and the final parse of handlePromptSubmit and handleChatSubmit     *)
(* (frontend/src/App.tsx), and parseJsonResponse of the Gemini backend.    *)
(* The request handlers of both backends (backend/src/index.ts and         *)
(* backend/src/index-gemini.ts) are the second state machine, ServerSpec.  *)
(*                                                                         *)
(* Text is a sequence of one-character strings; indices in the definitions *)
(* that model JavaScript are JavaScript's (0-based), and Sub(s, a, b) is   *)
(* s.substring(a, b).                                                      *)
(***************************************************************************)
EXTENDS Integers, Sequences, FiniteSets, TLC

\* ------------------------------------------------------------------ bounds

\* The largest number of characters one reader.read() delivers in the model.
MaxChunkLen == 3

\* ------------------------------------------------------- JavaScript strings

Min(a, b) == IF a < b THEN a ELSE b

Max(a, b) == IF a > b THEN a ELSE b

\* s.substring(a, b): the characters at 0-based indices a .. b-1, both ends
\* clamped to 0 .. s.length and swapped when a > b.
Sub(s, a, b) ==
    LET ca == Max(0, Min(a, Len(s)))
        cb == Max(0, Min(b, Len(s)))
        lo == Min(ca, cb)
        hi == Max(ca, cb)
    IN  SubSeq(s, lo + 1, hi)

\* s.startsWith(p, at): p occurs in s at 0-based index at.
OccursAt(s, p, at) ==
    /\ at >= 0
    /\ at + Len(p) <= Len(s)
    /\ \A k \in 1..Len(p) : s[at + k] = p[k]

\* s.startsWith(p)
startsWith(s, p) == OccursAt(s, p, 0)

\* s.includes(p)
includes(s, p) == \E at \in 0..Len(s) : OccursAt(s, p, at)

\* s.indexOf(p): the first index at which the literal text p occurs, or -1.
indexOf(s, p) ==
    IF includes(s, p)
    THEN CHOOSE at \in 0..Len(s) :
            OccursAt(s, p, at) /\ \A b \in 0..(at - 1) : ~OccursAt(s, p, b)
    ELSE -1

\* s.lastIndexOf(p): the last index at which the literal text p occurs, or -1.
\* The argument is a string, so nothing in it is a regular expression.
lastIndexOf(s, p) ==
    IF includes(s, p)
    THEN CHOOSE at \in 0..Len(s) :
            OccursAt(s, p, at) /\ \A b \in (at + 1)..Len(s) : ~OccursAt(s, p, b)
    ELSE -1

\* JavaScript's white space as far as the model's alphabet has it (String.trim,
\* the regular expression class \s).
JsSpace == {" ", "\t", "\n", "\r"}

RECURSIVE trimStart(_)
trimStart(s) == IF s # <<>> /\ Head(s) \in JsSpace THEN trimStart(Tail(s)) ELSE s

RECURSIVE trimEnd(_)
trimEnd(s) ==
    IF s # <<>> /\ s[Len(s)] \in JsSpace THEN trimEnd(SubSeq(s, 1, Len(s) - 1)) ELSE s

\* s.trim()
trim(s) == trimEnd(trimStart(s))

\* s.replace(/c/g, r) for a one-character pattern c.
RECURSIVE replaceAll(_, _, _)
replaceAll(s, c, r) ==
    IF s = <<>> THEN <<>>
    ELSE (IF Head(s) = c THEN r ELSE <<Head(s)>>) \o replaceAll(Tail(s), c, r)

\* ------------------------------------------------------------- JSON.parse

\* A JavaScript value is [t, v, members]: t its type, v its text (a string's
\* characters; for any other value the source text it was parsed from), and
\* members the key/value list of an object (the last entry of a key wins).
Str(s) == [t |-> "str", v |-> s, members |-> <<>>]

Undefined == [t |-> "undefined", v |-> <<>>, members |-> <<>>]

JsonWs == {" ", "\t", "\n", "\r"}

\* Characters JSON forbids unescaped inside a string (below U+0020).
ControlChars == {"\t", "\n", "\r", "\f"}

Digits == {"0", "1", "2", "3", "4", "5", "6", "7", "8", "9"}

HexDigits == Digits \cup {"a", "b", "c", "d", "e", "f", "A", "B", "C", "D", "E", "F"}

\* The character a two-character escape stands for.
SimpleEscape ==
    ("\"" :> "\"") @@ ("\\" :> "\\") @@ ("/" :> "/") @@ ("b" :> "<BS>")
    @@ ("f" :> "\f") @@ ("n" :> "\n") @@ ("r" :> "\r") @@ ("t" :> "\t")

\* The character \uXXXX stands for: the model's alphabet names the two it uses,
\* any other code unit is a character of its own.
CodeUnit(h) ==
    IF h = <<"0", "0", "6", "1">> THEN "a"
    ELSE IF h = <<"0", "0", "2", "2">> THEN "\""
    ELSE "U+" \o h[1] \o h[2] \o h[3] \o h[4]

ParseFail == [ok |-> FALSE, pos |-> 0, val |-> Undefined]

ParseOk(p, val) == [ok |-> TRUE, pos |-> p, val |-> val]

RECURSIVE skipWs(_, _)
skipWs(s, i) == IF i <= Len(s) /\ s[i] \in JsonWs THEN skipWs(s, i + 1) ELSE i

\* The characters of a JSON string, from position i (1-based, just after the
\* opening quote) to its closing quote; acc is what has been decoded.
RECURSIVE parseStringBody(_, _, _)
parseStringBody(s, i, acc) ==
    IF i > Len(s) THEN ParseFail
    ELSE IF s[i] = "\"" THEN ParseOk(i + 1, Str(acc))
    ELSE IF s[i] \in ControlChars THEN ParseFail
    ELSE IF s[i] = "\\" THEN
        IF i + 1 > Len(s) THEN ParseFail
        ELSE IF s[i + 1] \in DOMAIN SimpleEscape
        THEN parseStringBody(s, i + 2, Append(acc, SimpleEscape[s[i + 1]]))
        ELSE IF s[i + 1] = "u" /\ i + 5 <= Len(s)
                /\ \A k \in 2..5 : s[i + k] \in HexDigits
        THEN parseStringBody(s, i + 6, Append(acc, CodeUnit(SubSeq(s, i + 2, i + 5))))
        ELSE ParseFail
    ELSE parseStringBody(s, i + 1, Append(acc, s[i]))

RECURSIVE digitsEnd(_, _)
digitsEnd(s, i) == IF i <= Len(s) /\ s[i] \in Digits THEN digitsEnd(s, i + 1) ELSE i

\* A JSON number at position i: -? (0 | [1-9][0-9]*) (. [0-9]+)? ([eE][+-]?[0-9]+)?
parseNumber(s, i) ==
    LET d0 == IF i <= Len(s) /\ s[i] = "-" THEN i + 1 ELSE i
        d1 == IF d0 <= Len(s) /\ s[d0] = "0" THEN d0 + 1 ELSE digitsEnd(s, d0)
        f0 == IF d1 <= Len(s) /\ s[d1] = "." THEN digitsEnd(s, d1 + 1) ELSE d1
        fOk == f0 = d1 \/ f0 > d1 + 1
        e0 == IF f0 <= Len(s) /\ s[f0] \in {"e", "E"}
              THEN (IF f0 + 1 <= Len(s) /\ s[f0 + 1] \in {"+", "-"} THEN f0 + 2 ELSE f0 + 1)
              ELSE f0
        e1 == IF e0 = f0 THEN f0 ELSE digitsEnd(s, e0)
        eOk == e0 = f0 \/ e1 > e0
    IN  IF d1 > d0 /\ fOk /\ eOk
        THEN ParseOk(e1, [t |-> "num", v |-> SubSeq(s, i, e1 - 1), members |-> <<>>])
        ELSE ParseFail

parseLiteral(s, i, word, t) ==
    IF OccursAt(s, word, i - 1)
    THEN ParseOk(i + Len(word), [t |-> t, v |-> word, members |-> <<>>])
    ELSE ParseFail

RECURSIVE parseValue(_, _)
RECURSIVE parseMembers(_, _, _, _)
RECURSIVE parseElements(_, _, _)

\* After a member's value val: a comma and the next member, or the brace that
\* closes the object; all is the members read so far.
memberEnd(s, n0, start, all) ==
    IF n0 > Len(s) THEN ParseFail
    ELSE IF s[n0] = "," THEN parseMembers(s, n0 + 1, start, all)
    ELSE IF s[n0] = "}"
    THEN ParseOk(n0 + 1, [t |-> "obj", v |-> SubSeq(s, start, n0), members |-> all])
    ELSE ParseFail

memberNext(s, key, val, start, acc) ==
    IF ~val.ok THEN ParseFail
    ELSE memberEnd(s, skipWs(s, val.pos), start,
                   Append(acc, [k |-> key.val.v, t |-> val.val.t, v |-> val.val.v]))

\* After a member's key: the colon at c0 and the value.
memberValue(s, key, c0, start, acc) ==
    IF c0 > Len(s) \/ s[c0] # ":" THEN ParseFail
    ELSE memberNext(s, key, parseValue(s, skipWs(s, c0 + 1)), start, acc)

memberColon(s, key, start, acc) ==
    IF ~key.ok THEN ParseFail
    ELSE memberValue(s, key, skipWs(s, key.pos), start, acc)

\* A member's key, a string at k0.
memberKey(s, k0, start, acc) ==
    IF k0 > Len(s) \/ s[k0] # "\"" THEN ParseFail
    ELSE memberColon(s, parseStringBody(s, k0 + 1, <<>>), start, acc)

\* The members of an object from position i (a key is expected); start is the
\* position of the object's brace and acc the members read so far.
parseMembers(s, i, start, acc) == memberKey(s, skipWs(s, i), start, acc)

\* After an array's element val: a comma and the next element, or the bracket.
elementEnd(s, n0, start) ==
    IF n0 > Len(s) THEN ParseFail
    ELSE IF s[n0] = "," THEN parseElements(s, n0 + 1, start)
    ELSE IF s[n0] = "]"
    THEN ParseOk(n0 + 1, [t |-> "arr", v |-> SubSeq(s, start, n0), members |-> <<>>])
    ELSE ParseFail

elementNext(s, val, start) ==
    IF ~val.ok THEN ParseFail ELSE elementEnd(s, skipWs(s, val.pos), start)

\* The elements of an array from position i (a value is expected).
parseElements(s, i, start) == elementNext(s, parseValue(s, skipWs(s, i)), start)

\* An object or array whose first token after the bracket is at m0.
bracketed(s, i, m0, close, t) ==
    IF m0 <= Len(s) /\ s[m0] = close
    THEN ParseOk(m0 + 1, [t |-> t, v |-> SubSeq(s, i, m0), members |-> <<>>])
    ELSE IF t = "obj" THEN parseMembers(s, i + 1, i, <<>>)
    ELSE parseElements(s, i + 1, i)

\* A JSON value at position i (white space already skipped).
parseValue(s, i) ==
    IF i > Len(s) THEN ParseFail
    ELSE IF s[i] = "\"" THEN parseStringBody(s, i + 1, <<>>)
    ELSE IF s[i] = "{" THEN bracketed(s, i, skipWs(s, i + 1), "}", "obj")
    ELSE IF s[i] = "[" THEN bracketed(s, i, skipWs(s, i + 1), "]", "arr")
    ELSE IF s[i] = "t" THEN parseLiteral(s, i, <<"t", "r", "u", "e">>, "bool")
    ELSE IF s[i] = "f" THEN parseLiteral(s, i, <<"f", "a", "l", "s", "e">>, "bool")
    ELSE IF s[i] = "n" THEN parseLiteral(s, i, <<"n", "u", "l", "l">>, "null")
    ELSE IF s[i] = "-" \/ s[i] \in Digits THEN parseNumber(s, i)
    ELSE ParseFail

\* The whole text must be the one value r and white space.
wholeText(text, r) ==
    IF r.ok /\ skipWs(text, r.pos) = Len(text) + 1
    THEN [ok |-> TRUE, val |-> r.val]
    ELSE [ok |-> FALSE, val |-> Undefined]

\* JSON.parse(text): [ok, val]; ok = FALSE is the SyntaxError it throws.
JSONparse(text) == wholeText(text, parseValue(text, skipWs(text, 1)))

\* data[key] of a parsed value: the last member of that name of an object,
\* undefined when there is none or data is no object.
Prop(data, key) ==
    LET hits == {n \in 1..Len(data.members) : data.members[n].k = key}
    IN  IF data.t = "obj" /\ hits # {}
        THEN LET e == data.members[CHOOSE n \in hits : \A m \in hits : m <= n]
             IN  [t |-> e.t, v |-> e.v, members |-> <<>>]
        ELSE Undefined

\* Whether a value is truthy: the empty string, 0, false, null and undefined
\* are not.
RECURSIVE isZero(_)
isZero(v) ==
    IF v = <<>> THEN TRUE
    ELSE IF Head(v) \in {"e", "E"} THEN TRUE
    ELSE Head(v) \in {"0", "-", "."} /\ isZero(Tail(v))

Truthy(val) ==
    CASE val.t = "str" -> val.v # <<>>
      [] val.t = "num" -> ~isZero(val.v)
      [] val.t = "bool" -> val.v = <<"t", "r", "u", "e">>
      [] val.t \in {"obj", "arr"} -> TRUE
      [] OTHER -> FALSE

\* String(value), as a template literal renders it.
templateString(val) ==
    CASE val.t = "obj" -> <<"[object Object]">>
      [] val.t = "undefined" -> <<"undefined">>
      [] OTHER -> val.v

\* ---------------------------------------------------- extractPartialValue

Fields == {"html", "css", "js"}

\* The characters of a field's name.
KeyChars(key) ==
    CASE key = "html" -> <<"h", "t", "m", "l">>
      [] key = "css" -> <<"c", "s", "s">>
      [] key = "js" -> <<"j", "s">>
      [] key = "error" -> <<"e", "r", "r", "o", "r">>

\* The template literal of line 7: its doubled backslash is one backslash, so the text
\* is the quoted key, a colon, a backslash, the letter s, a star and a quote.
keyPattern(key) == <<"\"">> \o KeyChars(key) \o <<"\"", ":", "\\", "s", "*", "\"">>

\* char is a double quote and (i === 0 or partialJson[i - 1] is no backslash),
\* i 0-based.
isUnescapedQuote(partialJson, i) ==
    /\ partialJson[i + 1] = "\""
    /\ (i = 0 \/ partialJson[i] # "\\")

\* The mutant of looksLikeEnd that also accepts a quote the buffer ends with.
looksLikeEnd_orBufferEnd(partialJson, i) ==
    LET nextChars == Sub(partialJson, i + 1, i + 4)
    IN  nextChars = <<>> \/ startsWith(nextChars, <<",">>) \/ startsWith(nextChars, <<"}">>)

\* nextChars = partialJson.substring(i + 1, i + 4);
\* nextChars starts with a comma or with a closing brace.
looksLikeEnd(partialJson, i) ==
    LET nextChars == Sub(partialJson, i + 1, i + 4)
    IN  startsWith(nextChars, <<",">>) \/ startsWith(nextChars, <<"}">>)

\* The mutant of fallbackEnd that leaves the last character out.
fallbackEnd_dropLast(partialJson) == Len(partialJson) - 1

\* endIndex = partialJson.length, when i is the last index of the buffer.
fallbackEnd(partialJson) == Len(partialJson)

\* The while loop from index i (0-based): the endIndex it leaves, -1 when the
\* loop body never runs. openBraces is counted as the code counts it and is
\* read by nothing.
RECURSIVE scanValue(_, _, _)
scanValue(partialJson, i, openBraces) ==
    IF ~(i < Len(partialJson)) THEN -1
    ELSE LET char == partialJson[i + 1]
             quote == isUnescapedQuote(partialJson, i)
             braces == IF quote THEN openBraces
                       ELSE IF char = "{" THEN openBraces + 1
                       ELSE IF char = "}" /\ openBraces > 0 THEN openBraces - 1
                       ELSE openBraces
         IN  IF quote /\ looksLikeEnd(partialJson, i) THEN i
             ELSE IF i = Len(partialJson) - 1 THEN fallbackEnd(partialJson)
             ELSE scanValue(partialJson, i + 1, braces)

\* return parsedAttempt, and return potentialValue in the catch block.
\* The mutant of parsedOrRaw that gives up the value when JSON.parse throws.
parsedOrRaw_dropOnThrow(parsedAttempt, potentialValue) ==
    IF parsedAttempt.ok THEN parsedAttempt.val.v ELSE <<>>

parsedOrRaw(parsedAttempt, potentialValue) ==
    IF parsedAttempt.ok THEN parsedAttempt.val.v ELSE potentialValue

\* The value between the quotes JSON.parse is given: the second and third
\* replace write a line feed and a carriage return as their escapes. The first
\* replace (backslash quote by backslash quote) puts back what it matches.
quoted(potentialValue) ==
    <<"\"">>
    \o replaceAll(replaceAll(potentialValue, "\n", <<"\\", "n">>), "\r", <<"\\", "r">>)
    \o <<"\"">>

\* The mutant of resolveEscapes without the test for quote-comma.
resolveEscapes_noCommaTest(potentialValue) ==
    IF Len(potentialValue) > 0
    THEN parsedOrRaw(JSONparse(quoted(potentialValue)), potentialValue)
    ELSE potentialValue

\* The try block over potentialValue: JSON.parse of the quoted value when it is
\* not empty and holds no quote-comma, the value itself otherwise and when
\* JSON.parse throws.
resolveEscapes(potentialValue) ==
    IF Len(potentialValue) > 0 /\ ~includes(potentialValue, <<"\"", ",">>)
    THEN parsedOrRaw(JSONparse(quoted(potentialValue)), potentialValue)
    ELSE potentialValue

\* startIndex + keyPattern.length, or -1 when lastIndexOf finds nothing.
valueStartIndex(key, partialJson) ==
    LET startIndex == lastIndexOf(partialJson, keyPattern(key))
    IN  IF startIndex = -1 THEN -1 ELSE startIndex + Len(keyPattern(key))

\* Lines 33-51: the value between valueStart and endIndex.
valueBetween(partialJson, valueStart, endIndex) ==
    IF endIndex # -1 THEN resolveEscapes(Sub(partialJson, valueStart, endIndex))
    ELSE Sub(partialJson, valueStart, Len(partialJson))

\* The mutant of valueFrom that gives the buffer back when the key pattern is
\* not found.
valueFrom_bufferOnMiss(partialJson, valueStart) ==
    IF valueStart = -1 THEN partialJson
    ELSE valueBetween(partialJson, valueStart, scanValue(partialJson, valueStart, 0))

valueFrom(partialJson, valueStart) ==
    IF valueStart = -1 THEN <<>>
    ELSE valueBetween(partialJson, valueStart, scanValue(partialJson, valueStart, 0))

extractPartialValue(key, partialJson) ==
    valueFrom(partialJson, valueStartIndex(key, partialJson))

\* ------------------------------------------------------ parseJsonResponse

\* The grave accent, a character a TLA+ string cannot hold, under a name.
Backtick == "<backtick>"

Fence == <<Backtick, Backtick, Backtick>>

JsonTag == <<"j", "s", "o", "n">>

\* substring(0, 200) of the error message.
ExcerptLen == 200

\* s without its first n characters.
Drop(s, n) == SubSeq(s, n + 1, Len(s))

\* Whether the regular expression of line 108 matches: anchored at both ends,
\* a fence, then an optional json, white space, the lazy group, white space and
\* a fence. The optional json and the white space around the group take
\* nothing of a fence, so the match is there exactly when the text opens and
\* closes with two fences that do not overlap.
codeBlockMatches(jsonString) ==
    /\ Len(jsonString) >= 2 * Len(Fence)
    /\ startsWith(jsonString, Fence)
    /\ OccursAt(jsonString, Fence, Len(jsonString) - Len(Fence))

\* The text between the leading fence with its optional json and the final
\* fence.
afterTag(inner) == IF startsWith(inner, JsonTag) THEN Drop(inner, Len(JsonTag)) ELSE inner

\* codeBlockMatch[1]: the greedy optional json and white space are taken
\* first, the lazy group stops where only white space and the final fence
\* follow.
codeBlockGroup(jsonString) ==
    trim(afterTag(Sub(jsonString, Len(Fence), Len(jsonString) - Len(Fence))))

\* Lines 113-117: the substring from the first opening brace to the last
\* closing brace when both are there in that order, the text itself otherwise.
braceSpan(jsonString, jsonStart, jsonEnd) ==
    IF jsonStart # -1 /\ jsonEnd # -1 /\ jsonEnd > jsonStart
    THEN Sub(jsonString, jsonStart, jsonEnd + 1)
    ELSE jsonString

\* Lines 108-118 on the trimmed text.
stripWrapping(jsonString) ==
    IF codeBlockMatches(jsonString) /\ codeBlockGroup(jsonString) # <<>>
    THEN trim(codeBlockGroup(jsonString))
    ELSE braceSpan(jsonString, indexOf(jsonString, <<"{">>), lastIndexOf(jsonString, <<"}">>))

\* The mutant of skipJsonToken that leaves the token in place.
skipJsonToken_keepToken(jsonString) == jsonString

\* Lines 121-123: substring(indexOf of the opening brace); substring(-1) is
\* the whole text.
skipJsonToken(jsonString) ==
    IF startsWith(jsonString, JsonTag)
    THEN Sub(jsonString, indexOf(jsonString, <<"{">>), Len(jsonString))
    ELSE jsonString

\* The text JSON.parse is given.
cleaned(aiResponseText) == skipJsonToken(stripWrapping(trim(aiResponseText)))

\* What the function returns, or the Error it throws with the first 200
\* characters of its argument.
parsedOrThrown(parsed, aiResponseText) ==
    IF parsed.ok
    THEN [ok |-> TRUE, val |-> parsed.val, thrown |-> <<>>]
    ELSE [ok |-> FALSE, val |-> Undefined,
          thrown |-> <<"Failed to parse AI response as JSON. Content: ">>
                     \o Sub(aiResponseText, 0, ExcerptLen) \o <<"...">>]

parseJsonResponse(aiResponseText) ==
    parsedOrThrown(JSONparse(cleaned(aiResponseText)), aiResponseText)

\* ------------------------------------------------- the streamed response

\* What the upstream model may answer, written to the response chunk by chunk
\* as it comes: the document the prompts ask for, and the shapes the prompts
\* forbid and a model still produces.

\* The quoted key and a colon, followed by white space ws and the value's
\* opening quote.
JsonKey(key, ws) == <<"\"">> \o KeyChars(key) \o <<"\"", ":">> \o ws \o <<"\"">>

\* The opening of a field in one of three styles: JSON without and with white
\* space after the colon, and the text keyPattern spells out.
KeyStyles == {"json", "spaced", "literal"}

OpenField(style, key) ==
    CASE style = "json" -> JsonKey(key, <<>>)
      [] style = "spaced" -> JsonKey(key, <<" ">>)
      [] style = "literal" -> keyPattern(key)

\* Interiors of the html value as they stand in the stream (escapes unresolved).
HtmlInteriors ==
    { <<>>,
      <<"a">>,
      <<"a", "b">>,
      <<"a", "\\", "\\">>,
      <<"a", "\\", "\"", "b">>,
      <<"a", "\\", "n", "b">>,
      <<"a", "\n", "b">>,
      <<"{", "a", "}">>,
      <<"\\", "u", "0", "0", "6", "1">>,
      <<"a", "\"", "b">>,
      <<"\n", "\\", "t">>,
      <<"a", "\\", "\"", ",", "b">> }

CssInteriors == { <<>>, <<"c">> }

JsInteriors == { <<"j">> }

\* White space between a value's closing quote and the comma or brace after it.
Gaps == { <<>>, <<" ">> }

\* The object of html h, css c and js j in a key style, with gap after each
\* value.
Document(style, gap, h, c, j) ==
    <<"{">> \o OpenField(style, "html") \o h \o <<"\"">> \o gap \o <<",">>
    \o OpenField(style, "css") \o c \o <<"\"">> \o gap \o <<",">>
    \o OpenField(style, "js") \o j \o <<"\"">> \o gap \o <<"}">>

Documents ==
    { Document(style, gap, h, c, j) :
        style \in KeyStyles, gap \in Gaps, h \in HtmlInteriors,
        c \in CssInteriors, j \in JsInteriors }

\* A document the model restates: the html key opens twice.
Restated ==
    { <<"{">> \o OpenField(style, "html") \o <<"a", "\"", ",">>
      \o OpenField(style, "html") \o <<"b", "\"", ",">>
      \o OpenField(style, "css") \o <<"c", "\"", ",">>
      \o OpenField(style, "js") \o <<"j", "\"", "}">> : style \in KeyStyles }

PlainDocument == Document("json", <<>>, <<"a">>, <<"c">>, <<"j">>)

\* The document inside a fence, with and without the json tag.
Fenced ==
    { Fence \o <<"j", "s", "o", "n", "\n">> \o PlainDocument \o <<"\n">> \o Fence,
      Fence \o PlainDocument \o Fence }

\* The document with prose before it, after it, and both.
Prosed ==
    { <<"H", "i", ":", " ">> \o PlainDocument,
      PlainDocument \o <<" ", "o", "k">>,
      <<"H", "i", ":", " ">> \o PlainDocument \o <<" ", "o", "k">> }

\* What res.end of the error object puts after the chunks already written, and
\* the object a model reports an error with.
ErrorObject == <<"{", "\"", "e", "r", "r", "o", "r", "\"", ":", " ", "\"", "x", "\"", "}">>

Errored ==
    { ErrorObject,
      <<"{">> \o JsonKey("html", <<>>) \o <<"a", "\n">> \o ErrorObject }

\* A member of an object: the quoted key, a colon and the text of its value.
Member(key, valueText) == <<"\"">> \o KeyChars(key) \o <<"\"", ":">> \o valueText

\* The css and js members of the plain document, each behind a comma.
CssAndJs == <<",">> \o Member("css", <<"\"", "c", "\"">>) \o <<",">> \o Member("js", <<"\"", "j", "\"">>)

\* Values of an error key as a model may write them: a message, the empty
\* string, null, numbers and false.
ErrorValues ==
    { <<"\"", "x", "\"">>, <<"\"", "\"">>, <<"n", "u", "l", "l">>,
      <<"0">>, <<"1">>, <<"f", "a", "l", "s", "e">> }

\* An object with an error key, alone and next to html, css and js.
ErrorKeyed ==
    { <<"{">> \o Member("error", v) \o <<"}">> : v \in ErrorValues }
    \cup { <<"{">> \o Member("error", v) \o <<",">> \o Member("html", <<"\"", "a", "\"">>)
            \o CssAndJs \o <<"}">> : v \in ErrorValues }

\* Values of the html key that are no strings.
NonStringValues ==
    { <<"1">>, <<"0">>, <<"t", "r", "u", "e">>, <<"f", "a", "l", "s", "e">>,
      <<"n", "u", "l", "l">>, <<"{", "}">>, <<"[", "]">> }

\* The document with an html value that is no string.
NonString == { <<"{">> \o Member("html", v) \o CssAndJs \o <<"}">> : v \in NonStringValues }

\* Objects that lack one or all of the three keys.
Lacking ==
    { <<"{", "}">>,
      <<"{">> \o Member("html", <<"\"", "a", "\"">>) \o <<",">>
        \o Member("css", <<"\"", "c", "\"">>) \o <<"}">>,
      <<"{">> \o Member("css", <<"\"", "c", "\"">>) \o <<",">>
        \o Member("js", <<"\"", "j", "\"">>) \o <<"}">> }

\* Answers without any brace: prose, and JSON values that are no objects.
Braceless ==
    { <<"N", "o">>, <<"1">>, <<"n", "u", "l", "l">>, <<"[", "]">>, <<"\"", "a", "\"">> }

Bodies ==
    Documents \cup Restated \cup Fenced \cup Prosed \cup Errored
    \cup ErrorKeyed \cup NonString \cup Lacking \cup Braceless

\* --------------------------------------------------------------- the client

VARIABLES
    pc,               \* where handlePromptSubmit stands: idle, fetching, reading,
                      \* and returned as done (the stream ended), rejected
                      \* (the response was not ok) or failed (the outer catch)
    body,             \* the text the response streams, chosen by the server
    accumulatedJson,  \* the text read so far
    html, css, js,    \* the displayed code
    isLoading, error, chatError, showEditor, success,
    chatPc,               \* where handleChatSubmit stands, as pc
    chatBody,             \* the text the modify-code response streams
    chatAccumulatedJson,  \* accumulatedJson of handleChatSubmit
    chatInput, isChatLoading,
    chatSuccess,          \* success of handleChatSubmit
    current               \* currentHtml, currentCss and currentJs of the request
                          \* handleChatSubmit last sent

\* The backend, in either of its two variants.
VARIABLES
    variant,           \* the file that serves: index (Anthropic) or index-gemini
    endpoint,          \* the route of the request being handled
    prompt,            \* req.body.prompt, by its kind
    currentCode,       \* req.body.currentHtml, currentCss and currentJs, by kind
    srvPc,             \* where the route handler stands
    res,               \* the response object
    upstream,          \* the calls made to the model's API, in order
    aiResponseText,    \* the text the validating model answered with
    validationResult,  \* what validatePrompt returned
    stream             \* the events the generation stream has yet to yield

srvVars == <<variant, endpoint, prompt, currentCode, srvPc, res, upstream,
             aiResponseText, validationResult, stream>>

\* The two files that serve, and their routes.
Variants == {"index", "index-gemini"}

Endpoints == {"validate-prompt", "generate-code", "modify-code"}

\* req.body.prompt: absent, a number, white space only, or a text.
Prompts == {"undefined", "number", "blank", "text"}

\* req.body.currentHtml, currentCss, currentJs: three strings, or absent.
CurrentCodes == {"strings", "undefined"}

\* !prompt || typeof prompt !== "string" || prompt.trim().length === 0
invalidPrompt(p) == p # "text"

\* currentHtml === undefined || currentCss === undefined || currentJs === undefined
missingCode(c) == c = "undefined"

\* The response before the handler touches it. statusCode is what res.status
\* last set; sentStatus and body are what went out to the client; calls are
\* the methods the handler called on the response, in order.
NewResponse ==
    [statusCode |-> 200, headersSent |-> FALSE, finished |-> FALSE,
     sentStatus |-> 0, body |-> <<>>, calls |-> <<>>]

called(r, method) == [r EXCEPT !.calls = Append(@, method)]

\* The head of the response goes out with the first write, send or end.
flushed(r) ==
    IF r.headersSent THEN r
    ELSE [r EXCEPT !.headersSent = TRUE, !.sentStatus = r.statusCode]

\* res.status(code)
resStatus(r, code) == [called(r, "status") EXCEPT !.statusCode = code]

\* res.setHeader(name, value) and res.type(t). Both throw once the head has
\* gone out; the handlers test that with raises before the next call.
setHeader(r) == called(r, "setHeader")

type(r) == called(r, "type")

\* Whether a call that sets a header (setHeader, type, send, json) throws.
raises(r) == r.headersSent

\* res.write(text): nothing reaches the client after the response has ended.
write(r, text) ==
    IF r.finished THEN called(r, "write")
    ELSE [flushed(called(r, "write")) EXCEPT !.body = @ \o text]

\* res.end(text)
end(r, text) ==
    IF r.finished THEN called(r, "end")
    ELSE [flushed(called(r, "end")) EXCEPT !.body = @ \o text, !.finished = TRUE]

\* res.send(text) and res.json(value): the whole response at once.
send(r, text) ==
    IF raises(r) THEN called(r, "send")
    ELSE [flushed(called(r, "send")) EXCEPT !.body = @ \o text, !.finished = TRUE]

json(r, text) ==
    IF raises(r) THEN called(r, "json")
    ELSE [flushed(called(r, "json")) EXCEPT !.body = @ \o text, !.finished = TRUE]

\* What validatePrompt has not returned yet.
NotValidated == [valid |-> Undefined, reason |-> Undefined]

\* app.listen: no request is being handled.
ServerInit ==
    /\ variant = "index"
    /\ endpoint = "validate-prompt"
    /\ prompt = "text"
    /\ currentCode = "strings"
    /\ srvPc = "listening"
    /\ res = NewResponse
    /\ upstream = <<>>
    /\ aiResponseText = <<>>
    /\ validationResult = NotValidated
    /\ stream = <<>>

\* What handleChatSubmit alone writes.
chatVars == <<chatPc, chatBody, chatAccumulatedJson, chatInput, isChatLoading, chatSuccess,
              current>>

vars == <<pc, body, accumulatedJson, html, css, js,
          isLoading, error, chatError, showEditor, success, chatVars, srvVars>>

\* An error message: the literal text and what a template appends to it.
Message(text, detail) == [msg |-> text, detail |-> detail]

Null == Message("null", <<>>)

\* A text of the source that the model keeps whole, as one symbol.
Literal(text) == Str(<<text>>)

\* The code a request for a modification carries; none has been sent yet.
Code(h, c, j) == [html |-> h, css |-> c, js |-> j]

NoCode == Code(Undefined, Undefined, Undefined)

\* useState(...) of App.
Init ==
    /\ pc = "idle"
    /\ body = <<>>
    /\ accumulatedJson = <<>>
    /\ html = Literal("<!-- HTML code will appear here -->")
    /\ css = Literal("/* CSS code will appear here */")
    /\ js = Literal("// JavaScript code will appear here")
    /\ isLoading = FALSE
    /\ error = Null
    /\ chatError = Null
    /\ showEditor = FALSE
    /\ success = FALSE
    /\ chatPc = "idle"
    /\ chatBody = <<>>
    /\ chatAccumulatedJson = <<>>
    /\ chatInput = <<>>
    /\ isChatLoading = FALSE
    /\ chatSuccess = FALSE
    /\ current = NoCode
    /\ ServerInit

\* handlePromptSubmit up to the fetch. LandingPage, whose form calls it, is
\* rendered while showEditor is false.
Submit ==
    /\ pc = "idle"
    /\ ~showEditor
    /\ pc' = "fetching"
    /\ isLoading' = TRUE
    /\ error' = Null
    /\ chatError' = Null
    /\ html' = Literal("<!-- Generating HTML... -->")
    /\ css' = Literal("/* Generating CSS... */")
    /\ js' = Literal("// Generating JavaScript...")
    /\ showEditor' = TRUE
    /\ success' = FALSE
    /\ UNCHANGED <<body, accumulatedJson, chatVars>>
    /\ UNCHANGED srvVars

\* The statuses a response that is not ok comes with.
Statuses == {400, 500, 404}

\* if (!response.ok) { setError(...); return; } and the finally block.
RespondNotOk ==
    /\ pc = "fetching"
    /\ \E status \in Statuses :
        error' = IF status = 400 THEN Message("Bad Request: Please check your input.", <<>>)
                 ELSE IF status = 500
                 THEN Message("Server Error: Please try again later.", <<>>)
                 ELSE Message("Unexpected Error: Please try again.", <<>>)
    /\ isLoading' = FALSE
    /\ pc' = "rejected"
    /\ UNCHANGED <<body, accumulatedJson, html, css, js, chatError, showEditor, success,
                   chatVars>>
    /\ UNCHANGED srvVars

\* fetch rejects, or the response has no body: the outer catch and finally.
RespondThrows ==
    /\ pc = "fetching"
    /\ \E m \in {"Failed to fetch", "Response body is missing"} :
        error' = Message(m, <<>>)
    /\ isLoading' = FALSE
    /\ pc' = "failed"
    /\ UNCHANGED <<body, accumulatedJson, html, css, js, chatError, showEditor, success,
                   chatVars>>
    /\ UNCHANGED srvVars

\* The response is ok: reader, decoder, accumulatedJson empty.
RespondOk ==
    /\ pc = "fetching"
    /\ \E b \in Bodies : body' = b
    /\ accumulatedJson' = <<>>
    /\ pc' = "reading"
    /\ UNCHANGED <<html, css, js, isLoading, error, chatError, showEditor, success,
                   chatVars>>
    /\ UNCHANGED srvVars

\* The mutant of coalesce that keeps the previous value.
coalesce_keepPrev(prev, partial) == IF partial # prev THEN prev ELSE partial

\* (prev) => (partial !== prev ? partial : prev)
coalesce(prev, partial) == IF partial # prev THEN partial ELSE prev

\* The mutant of ReadChunk that extracts from the chunk alone, not from the
\* text accumulated.
ReadChunk_chunkAlone ==
    /\ pc = "reading"
    /\ \E k \in 1..MaxChunkLen :
        /\ Len(accumulatedJson) + k <= Len(body)
        /\ LET chunk == SubSeq(body, Len(accumulatedJson) + 1, Len(accumulatedJson) + k)
           IN  /\ accumulatedJson' = accumulatedJson \o chunk
               /\ html' = coalesce(html, Str(extractPartialValue("html", chunk)))
               /\ css' = coalesce(css, Str(extractPartialValue("css", chunk)))
               /\ js' = coalesce(js, Str(extractPartialValue("js", chunk)))
    /\ UNCHANGED <<pc, body, isLoading, error, chatError, showEditor, success, chatVars>>
    /\ UNCHANGED srvVars

\* The mutant of ReadChunk that keeps the last chunk as the buffer.
ReadChunk_lastChunk ==
    /\ pc = "reading"
    /\ \E k \in 1..MaxChunkLen :
        /\ Len(accumulatedJson) + k <= Len(body)
        /\ LET chunk == SubSeq(body, Len(accumulatedJson) + 1, Len(accumulatedJson) + k)
           IN  /\ accumulatedJson' = chunk
               /\ html' = coalesce(html, Str(extractPartialValue("html", chunk)))
               /\ css' = coalesce(css, Str(extractPartialValue("css", chunk)))
               /\ js' = coalesce(js, Str(extractPartialValue("js", chunk)))
    /\ UNCHANGED <<pc, body, isLoading, error, chatError, showEditor, success, chatVars>>
    /\ UNCHANGED srvVars

\* One turn of the while loop with a chunk of k characters.
ReadChunk ==
    /\ pc = "reading"
    /\ \E k \in 1..MaxChunkLen :
        /\ Len(accumulatedJson) + k <= Len(body)
        /\ LET chunk == SubSeq(body, Len(accumulatedJson) + 1, Len(accumulatedJson) + k)
               acc == accumulatedJson \o chunk
           IN  /\ accumulatedJson' = acc
               /\ html' = coalesce(html, Str(extractPartialValue("html", acc)))
               /\ css' = coalesce(css, Str(extractPartialValue("css", acc)))
               /\ js' = coalesce(js, Str(extractPartialValue("js", acc)))
    /\ UNCHANGED <<pc, body, isLoading, error, chatError, showEditor, success, chatVars>>
    /\ UNCHANGED srvVars

\* The property name error.
ErrorKey == <<"e", "r", "r", "o", "r">>

\* data.x || the empty string
orEmpty(val) == IF Truthy(val) THEN val ELSE Str(<<>>)

\* The branch the inner try block takes on what JSON.parse gave: catch when it
\* threw or data is null (data.error then throws a TypeError), error when
\* data.error is truthy, success when html, css and js are all defined, and
\* invalid otherwise.
finalBranch(parsed) ==
    IF ~parsed.ok \/ parsed.val.t = "null" THEN "catch"
    ELSE IF Truthy(Prop(parsed.val, ErrorKey)) THEN "error"
    ELSE IF \A f \in Fields : Prop(parsed.val, KeyChars(f)) # Undefined THEN "success"
    ELSE "invalid"

\* The mutant of FinalParse that leaves the partial html in place on success.
FinalParse_keepPartial(parsed) ==
    /\ error' =
        CASE finalBranch(parsed) = "catch" ->
                Message("Failed to process generated code.", <<>>)
          [] finalBranch(parsed) = "error" ->
                Message("Generation Error: ", templateString(Prop(parsed.val, ErrorKey)))
          [] finalBranch(parsed) = "success" -> Null
          [] OTHER -> Message("Invalid data structure received.", <<>>)
    /\ html' = html
    /\ css' = IF finalBranch(parsed) = "success"
              THEN orEmpty(Prop(parsed.val, KeyChars("css"))) ELSE css
    /\ js' = IF finalBranch(parsed) = "success"
             THEN orEmpty(Prop(parsed.val, KeyChars("js"))) ELSE js
    /\ success' = (finalBranch(parsed) = "success")

\* The mutant of FinalParse that sets no error in the else branch.
FinalParse_silentElse(parsed) ==
    /\ error' =
        CASE finalBranch(parsed) = "catch" ->
                Message("Failed to process generated code.", <<>>)
          [] finalBranch(parsed) = "error" ->
                Message("Generation Error: ", templateString(Prop(parsed.val, ErrorKey)))
          [] OTHER -> Null
    /\ html' = IF finalBranch(parsed) = "success"
               THEN orEmpty(Prop(parsed.val, KeyChars("html"))) ELSE html
    /\ css' = IF finalBranch(parsed) = "success"
              THEN orEmpty(Prop(parsed.val, KeyChars("css"))) ELSE css
    /\ js' = IF finalBranch(parsed) = "success"
             THEN orEmpty(Prop(parsed.val, KeyChars("js"))) ELSE js
    /\ success' = (finalBranch(parsed) = "success")

\* What the inner try block sets, given what JSON.parse gave.
FinalParse(parsed) ==
    /\ error' =
        CASE finalBranch(parsed) = "catch" ->
                Message("Failed to process generated code.", <<>>)
          [] finalBranch(parsed) = "error" ->
                Message("Generation Error: ", templateString(Prop(parsed.val, ErrorKey)))
          [] finalBranch(parsed) = "success" -> Null
          [] OTHER -> Message("Invalid data structure received.", <<>>)
    /\ html' = IF finalBranch(parsed) = "success"
               THEN orEmpty(Prop(parsed.val, KeyChars("html"))) ELSE html
    /\ css' = IF finalBranch(parsed) = "success"
              THEN orEmpty(Prop(parsed.val, KeyChars("css"))) ELSE css
    /\ js' = IF finalBranch(parsed) = "success"
             THEN orEmpty(Prop(parsed.val, KeyChars("js"))) ELSE js
    /\ success' = (finalBranch(parsed) = "success")

\* The mutant of ReadDone that recovers from the whole body the server meant to
\* send instead of the text accumulated.
ReadDone_wholeBody ==
    /\ pc = "reading"
    /\ FinalParse(JSONparse(body))
    /\ isLoading' = FALSE
    /\ pc' = "done"
    /\ UNCHANGED <<body, accumulatedJson, chatError, showEditor, chatVars>>
    /\ UNCHANGED srvVars

\* reader.read() reports done (the stream may end before the whole body has
\* come): the final JSON.parse, its branches, and the finally block.
ReadDone ==
    /\ pc = "reading"
    /\ FinalParse(JSONparse(accumulatedJson))
    /\ isLoading' = FALSE
    /\ pc' = "done"
    /\ UNCHANGED <<body, accumulatedJson, chatError, showEditor, chatVars>>
    /\ UNCHANGED srvVars

\* The mutant of ReadFail that leaves out the finally block.
ReadFail_noFinally ==
    /\ pc = "reading"
    /\ error' = Message("network error", <<>>)
    /\ pc' = "failed"
    /\ UNCHANGED <<body, accumulatedJson, html, css, js, isLoading, chatError, showEditor,
                   success, chatVars>>
    /\ UNCHANGED srvVars

\* reader.read() rejects: the outer catch and the finally block.
ReadFail ==
    /\ pc = "reading"
    /\ error' = Message("network error", <<>>)
    /\ isLoading' = FALSE
    /\ pc' = "failed"
    /\ UNCHANGED <<body, accumulatedJson, html, css, js, chatError, showEditor, success,
                   chatVars>>
    /\ UNCHANGED srvVars

\* ------------------------------------------------------- handleChatSubmit

\* What the user may have typed into the chat input: nothing, a blank, a text.
ChatInputs == { <<>>, <<" ">>, <<"x">> }

\* The mutant of chatFormEnabled that leaves the form enabled while the
\* generation is loading.
chatFormEnabled_whileLoading == showEditor /\ ~isChatLoading

\* The chat form is rendered with the editor; its input and its button are
\* disabled while either request is loading.
chatFormEnabled == showEditor /\ ~isLoading /\ ~isChatLoading

\* onChange of the chat input.
ChatType ==
    /\ chatFormEnabled
    /\ \E text \in ChatInputs : chatInput' = text
    /\ UNCHANGED <<pc, body, accumulatedJson, html, css, js, isLoading, error, chatError,
                   showEditor, success, chatPc, chatBody, chatAccumulatedJson,
                   isChatLoading, chatSuccess>>
    /\ UNCHANGED current
    /\ UNCHANGED srvVars

\* What the modify-code endpoint may stream.
ChatBodies ==
    { PlainDocument,
      Document("literal", <<>>, <<"b">>, <<"c">>, <<"j">>),
      <<"{">> \o Member("html", <<"0">>) \o CssAndJs \o <<"}">>,
      <<"{">> \o Member("error", <<"\"", "\"">>) \o <<",">>
        \o Member("html", <<"\"", "a", "\"">>) \o CssAndJs \o <<"}">>,
      <<"{", "}">>,
      <<"N", "o">> }
    \cup Errored

\* handleChatSubmit up to the fetch: the guard of line 151 on a form that can
\* be submitted. The locals of a handler that has returned are no longer
\* there.
ChatSubmit ==
    /\ chatFormEnabled
    /\ trim(chatInput) # <<>>
    /\ ~isChatLoading
    /\ isChatLoading' = TRUE
    /\ chatError' = Null
    /\ error' = Null
    /\ chatInput' = <<>>
    /\ chatSuccess' = FALSE
    /\ chatPc' = "fetching"
    /\ chatBody' = <<>>
    /\ chatAccumulatedJson' = <<>>
    /\ current' = Code(html, css, js)
    /\ pc' = "idle"
    /\ body' = <<>>
    /\ accumulatedJson' = <<>>
    /\ success' = FALSE
    /\ UNCHANGED <<html, css, js, isLoading, showEditor>>
    /\ UNCHANGED srvVars

\* if (!response.ok) { setChatError(...); return; } and the finally block.
ChatRespondNotOk ==
    /\ chatPc = "fetching"
    /\ \E status \in Statuses :
        chatError' = IF status = 400
                     THEN Message("Bad Request: Please check your input.", <<>>)
                     ELSE IF status = 500
                     THEN Message("Server Error: Please try again later.", <<>>)
                     ELSE Message("Unexpected Error: Please try again.", <<>>)
    /\ isChatLoading' = FALSE
    /\ chatPc' = "rejected"
    /\ UNCHANGED <<pc, body, accumulatedJson, html, css, js, isLoading, error, showEditor,
                   success, chatBody, chatAccumulatedJson, chatInput, chatSuccess>>
    /\ current' = NoCode
    /\ UNCHANGED srvVars

\* fetch rejects, or the response has no body: the outer catch and finally.
ChatRespondThrows ==
    /\ chatPc = "fetching"
    /\ \E m \in {"Failed to fetch", "Response body is missing"} :
        chatError' = Message(m, <<>>)
    /\ isChatLoading' = FALSE
    /\ chatPc' = "failed"
    /\ UNCHANGED <<pc, body, accumulatedJson, html, css, js, isLoading, error, showEditor,
                   success, chatBody, chatAccumulatedJson, chatInput, chatSuccess>>
    /\ current' = NoCode
    /\ UNCHANGED srvVars

\* The response is ok: reader, decoder, accumulatedJson empty.
ChatRespondOk ==
    /\ chatPc = "fetching"
    /\ \E b \in ChatBodies : chatBody' = b
    /\ chatAccumulatedJson' = <<>>
    /\ chatPc' = "reading"
    /\ UNCHANGED <<pc, body, accumulatedJson, html, css, js, isLoading, error, chatError,
                   showEditor, success, chatInput, isChatLoading, chatSuccess>>
    /\ UNCHANGED current
    /\ UNCHANGED srvVars

\* One turn of the while loop of handleChatSubmit with a chunk of k characters.
ChatReadChunk ==
    /\ chatPc = "reading"
    /\ \E k \in 1..MaxChunkLen :
        /\ Len(chatAccumulatedJson) + k <= Len(chatBody)
        /\ LET chunk == SubSeq(chatBody, Len(chatAccumulatedJson) + 1,
                               Len(chatAccumulatedJson) + k)
               acc == chatAccumulatedJson \o chunk
           IN  /\ chatAccumulatedJson' = acc
               /\ html' = coalesce(html, Str(extractPartialValue("html", acc)))
               /\ css' = coalesce(css, Str(extractPartialValue("css", acc)))
               /\ js' = coalesce(js, Str(extractPartialValue("js", acc)))
    /\ UNCHANGED <<pc, body, accumulatedJson, isLoading, error, chatError, showEditor,
                   success, chatPc, chatBody, chatInput, isChatLoading, chatSuccess>>
    /\ UNCHANGED current
    /\ UNCHANGED srvVars

\* What the inner try block of handleChatSubmit sets, given what JSON.parse
\* gave.
ChatFinalParse(parsed) ==
    /\ chatError' =
        CASE finalBranch(parsed) = "catch" ->
                Message("Failed to process the modified code (invalid format).", <<>>)
          [] finalBranch(parsed) = "error" ->
                Message("Modification Error: ", templateString(Prop(parsed.val, ErrorKey)))
          [] finalBranch(parsed) = "success" -> Null
          [] OTHER ->
                Message("Received incomplete or invalid data structure after modification.",
                        <<>>)
    /\ html' = IF finalBranch(parsed) = "success"
               THEN orEmpty(Prop(parsed.val, KeyChars("html"))) ELSE html
    /\ css' = IF finalBranch(parsed) = "success"
              THEN orEmpty(Prop(parsed.val, KeyChars("css"))) ELSE css
    /\ js' = IF finalBranch(parsed) = "success"
             THEN orEmpty(Prop(parsed.val, KeyChars("js"))) ELSE js
    /\ chatSuccess' = (finalBranch(parsed) = "success")

\* reader.read() reports done: the final JSON.parse, its branches, and the
\* finally block.
ChatReadDone ==
    /\ chatPc = "reading"
    /\ ChatFinalParse(JSONparse(chatAccumulatedJson))
    /\ isChatLoading' = FALSE
    /\ chatPc' = "done"
    /\ UNCHANGED <<pc, body, accumulatedJson, isLoading, error, showEditor, success,
                   chatBody, chatAccumulatedJson, chatInput>>
    /\ current' = NoCode
    /\ UNCHANGED srvVars

\* reader.read() rejects: the outer catch and the finally block.
ChatReadFail ==
    /\ chatPc = "reading"
    /\ chatError' = Message("network error", <<>>)
    /\ isChatLoading' = FALSE
    /\ chatPc' = "failed"
    /\ UNCHANGED <<pc, body, accumulatedJson, html, css, js, isLoading, error, showEditor,
                   success, chatBody, chatAccumulatedJson, chatInput, chatSuccess>>
    /\ current' = NoCode
    /\ UNCHANGED srvVars

\* ------------------------------------------------------------ the backend

\* The JavaScript values true and false.
True == [t |-> "bool", v |-> <<"t", "r", "u", "e">>, members |-> <<>>]

False == [t |-> "bool", v |-> <<"f", "a", "l", "s", "e">>, members |-> <<>>]

\* The property names valid and reason.
ValidKey == <<"v", "a", "l", "i", "d">>

ReasonKey == <<"r", "e", "a", "s", "o", "n">>

\* The object the validator is asked for, with the text of its valid member.
Verdict(validText) ==
    <<"{", "\"">> \o ValidKey \o <<"\"", ":">> \o validText
    \o <<",", "\"">> \o ReasonKey \o <<"\"", ":", "\"", "r", "\"", "}">>

\* What the validating model may answer with: the verdict bare, fenced, with a
\* stray json before it (inside a fence, before a brace pair, and without the
\* closing brace), a verdict whose valid is a string, and answers that are no
\* verdict at all.
ValidatorAnswers ==
    { Verdict(<<"t", "r", "u", "e">>),
      Verdict(<<"f", "a", "l", "s", "e">>),
      Fence \o JsonTag \o <<"\n">> \o Verdict(<<"t", "r", "u", "e">>) \o <<"\n">> \o Fence,
      Fence \o <<"\n">> \o JsonTag \o <<"\n">> \o Verdict(<<"t", "r", "u", "e">>) \o Fence,
      Fence \o JsonTag \o <<" ">> \o JsonTag \o Verdict(<<"f", "a", "l", "s", "e">>) \o Fence,
      JsonTag \o <<"\n">> \o Verdict(<<"t", "r", "u", "e">>),
      JsonTag \o <<" ", "{", "\"">> \o ValidKey \o <<"\"", ":", "t", "r", "u", "e">>,
      JsonTag,
      Verdict(<<"\"", "f", "a", "l", "s", "e", "\"">>),
      <<"{", "}">>,
      <<"n", "u", "l", "l">>,
      <<"N", "o">> }

\* How the call to the validating model ends: it throws, it answers without
\* any content (no content block, no candidate), or it answers with a text.
ValidatorOutcomes ==
    { [kind |-> "throws", text |-> <<>>], [kind |-> "empty", text |-> <<>>] }
    \cup { [kind |-> "text", text |-> t] : t \in ValidatorAnswers }

\* index.ts line 65: the regular expression is not anchored, so it matches at
\* the first fence that another fence follows; closingFence is the index of
\* that other fence, or -1.
closingFence(content, opening) ==
    IF opening = -1 \/ indexOf(Drop(content, opening + Len(Fence)), Fence) = -1
    THEN -1
    ELSE opening + Len(Fence) + indexOf(Drop(content, opening + Len(Fence)), Fence)

\* codeBlockMatch[1] of index.ts: what stands between the two fences, less
\* the optional json, the white space after it and the white space before the
\* closing fence.
codeBlockMatch1(content, opening, closing) ==
    trim(afterTag(Sub(content, opening + Len(Fence), closing)))

\* index.ts lines 64-75: the text JSON.parse is given.
jsonString(content) ==
    IF closingFence(content, indexOf(content, Fence)) # -1
       /\ codeBlockMatch1(content, indexOf(content, Fence),
                          closingFence(content, indexOf(content, Fence))) # <<>>
    THEN trim(codeBlockMatch1(content, indexOf(content, Fence),
                              closingFence(content, indexOf(content, Fence))))
    ELSE braceSpan(content, indexOf(content, <<"{">>), lastIndexOf(content, <<"}">>))

Verdicts(valid, reason) == [valid |-> valid, reason |-> reason]

\* Lines 80-95 of index.ts on what JSON.parse gave: a property of null throws
\* a TypeError, which the inner catch answers like a text that does not parse.
resultOf(parsed) ==
    IF ~parsed.ok \/ parsed.val.t = "null"
    THEN Verdicts(False, Literal("Failed to validate prompt: Could not parse AI response."))
    ELSE Verdicts(Prop(parsed.val, ValidKey), Prop(parsed.val, ReasonKey))

\* validatePrompt of index.ts. Without a content block response.content[0].text
\* throws in the inner try and again in the inner catch, which the outer catch
\* answers.
validatePromptAnthropic(outcome) ==
    IF outcome.kind = "text"
    THEN resultOf(JSONparse(jsonString(outcome.text)))
    ELSE Verdicts(False, Str(<<"Error validating prompt: ", outcome.kind>>))

\* Lines 186-202 of index-gemini.ts on what parseJsonResponse gave: its Error,
\* the TypeError of a property of null and the Error of the typeof test all
\* end in the catch block.
parsedJsonOf(parsed) ==
    IF ~parsed.ok
    THEN Verdicts(False, Str(<<"Error validating prompt with Gemini: ">> \o parsed.thrown))
    ELSE IF parsed.val.t = "null"
    THEN Verdicts(False, Literal("Error validating prompt with Gemini: TypeError"))
    ELSE IF Prop(parsed.val, ValidKey).t # "bool" \/ Prop(parsed.val, ReasonKey).t # "str"
    THEN Verdicts(False, Literal("Error validating prompt with Gemini: Invalid JSON structure received from validation AI."))
    ELSE Verdicts(Prop(parsed.val, ValidKey), Prop(parsed.val, ReasonKey))

\* validatePrompt of index-gemini.ts.
validatePromptGemini(outcome) ==
    IF outcome.kind = "text" THEN parsedJsonOf(parseJsonResponse(outcome.text))
    ELSE IF outcome.kind = "empty"
    THEN Verdicts(False, Literal("Validation request blocked by safety filters: Unknown reason. Please revise your prompt."))
    ELSE Verdicts(False, Literal("Error validating prompt with Gemini: throws"))

validatePrompt(v, outcome) ==
    IF v = "index" THEN validatePromptAnthropic(outcome) ELSE validatePromptGemini(outcome)

\* Where a handler goes on after a step: the response, the position and the
\* calls made to the model's API.
Step(r, at, up) == [res |-> r, pc |-> at, upstream |-> up]

\* What res.end of index.ts appends after a failure in the stream, and what
\* index-gemini.ts writes: for a block seen in a chunk (JSON.stringify) and in
\* its catch block. The letter x stands for the message.
ErrorFragment == <<"\n">> \o ErrorObject

BlockedObject ==
    <<"{", "\"", "s", "t", "r", "e", "a", "m", "_", "e", "r", "r", "o", "r", "\"",
      ":", "\"", "x", "\"", "}">>

StreamErrorFragment ==
    <<"\n", "{", "\"", "s", "t", "r", "e", "a", "m", "_", "e", "r", "r", "o", "r", "\"",
      ":", " ", "\"", "x", "\"", "}">>

\* The catch block of generate-code and modify-code: a 500 while the head has
\* not gone out, a fragment appended to the stream otherwise.
streamCatch(v, r) ==
    IF v = "index"
    THEN IF ~r.headersSent
         THEN send(resStatus(r, 500), <<"Server error while generating code stream.">>)
         ELSE end(r, ErrorFragment)
    ELSE IF ~r.headersSent
         THEN send(type(resStatus(r, 500)), <<"Server error generating code: ">>)
         ELSE end(write(r, StreamErrorFragment), <<>>)

\* The three setHeader calls and the call that opens the generation stream.
\* The first setHeader throws when the head has gone out already, which the
\* catch block answers.
beginStream(v, r, up) ==
    IF raises(r)
    THEN Step(streamCatch(v, setHeader(r)), "caught", up)
    ELSE Step(setHeader(setHeader(setHeader(r))), "opening", Append(up, "generation"))

InvalidPromptText ==
    <<"Invalid prompt format. Please provide a non-empty text description of your website.">>

\* The 400 of an invalid prompt: res.status(400).json on validate-prompt,
\* res.status(400).send on the streaming routes, with type("text/plain") in
\* index-gemini.ts.
rejectPrompt(v, ep, r) ==
    IF ep = "validate-prompt" THEN json(resStatus(r, 400), InvalidPromptText)
    ELSE IF v = "index" THEN send(resStatus(r, 400), InvalidPromptText)
    ELSE send(type(resStatus(r, 400)), InvalidPromptText)

\* index.ts up to its first await: each 400 is followed by return.
checkRequestAnthropic(ep, p, c, r, up) ==
    IF invalidPrompt(p) THEN Step(rejectPrompt("index", ep, r), "returned", up)
    ELSE IF ep # "modify-code" THEN Step(r, "validating", Append(up, "validation"))
    ELSE IF missingCode(c)
    THEN Step(send(resStatus(r, 400), <<"Missing current code (HTML, CSS, or JS).">>),
              "returned", up)
    ELSE beginStream("index", r, up)

\* index-gemini.ts after the test of the prompt, r being the response as that
\* test left it: no 400 is followed by return. On modify-code a second 400
\* after a first throws in type, outside the try block.
checkCodeGemini(ep, c, r, up) ==
    IF ep # "modify-code" THEN Step(r, "validating", Append(up, "validation"))
    ELSE IF ~missingCode(c) THEN beginStream("index-gemini", r, up)
    ELSE IF raises(r) THEN Step(type(resStatus(r, 400)), "raised", up)
    ELSE beginStream("index-gemini",
                     send(type(resStatus(r, 400)),
                          <<"Missing or invalid current code (HTML, CSS, or JS).">>),
                     up)

checkRequestGemini(ep, p, c, r, up) ==
    checkCodeGemini(ep, c,
                    IF invalidPrompt(p) THEN rejectPrompt("index-gemini", ep, r) ELSE r,
                    up)

checkRequest(v, ep, p, c, r, up) ==
    IF v = "index" THEN checkRequestAnthropic(ep, p, c, r, up)
    ELSE checkRequestGemini(ep, p, c, r, up)

\* validationResult.reason || the default text
reasonOrDefault(reason) ==
    IF Truthy(reason) THEN templateString(reason)
    ELSE <<"Request cannot be implemented with HTML/CSS/JS alone">>

\* validate-prompt after validatePrompt returned: res.json, which throws when
\* the head has gone out, and then res.status(500).json of the catch block
\* throws as well.
answerValidation(r, up) ==
    IF raises(r) THEN Step(json(resStatus(json(r, <<>>), 500), <<>>), "raised", up)
    ELSE Step(json(r, <<"validationResult">>), "returned", up)

\* generate-code after validatePrompt returned, up to the next await.
\* index.ts returns after its 400; index-gemini.ts goes on to setHeader.
afterValidation(v, vr, r, up) ==
    IF Truthy(vr.valid) THEN beginStream(v, r, up)
    ELSE IF v = "index"
    THEN Step(send(resStatus(r, 400),
                   <<"Prompt validation failed: ">> \o reasonOrDefault(vr.reason)),
              "returned", up)
    ELSE IF raises(r) THEN Step(streamCatch(v, type(resStatus(r, 400))), "caught", up)
    ELSE beginStream(v,
                     send(type(resStatus(r, 400)),
                          <<"Prompt validation failed: ">> \o reasonOrDefault(vr.reason)),
                     up)

\* The events of a generation stream: a text, an event without text
\* (message_start and the like, a chunk without candidates), a chunk that
\* reports a block.
Event(kind, text) == [type |-> kind, text |-> text]

\* Where the text of the document is cut into two events.
HeadLen == 10

Streams(v) ==
    { <<Event("text", SubSeq(PlainDocument, 1, HeadLen)),
        Event("text", Drop(PlainDocument, HeadLen))>>,
      <<Event("other", <<>>), Event("text", PlainDocument)>>,
      <<Event("text", <<>>), Event("text", PlainDocument)>> }
    \cup IF v = "index" THEN {}
         ELSE { <<Event("block", <<>>)>>,
                <<Event("text", SubSeq(PlainDocument, 1, HeadLen)), Event("block", <<>>)>> }

\* The state of App, which no handler of the backend touches.
clientVars == <<pc, body, accumulatedJson, html, css, js,
                isLoading, error, chatError, showEditor, success, chatVars>>

Goes(step) ==
    /\ res' = step.res
    /\ srvPc' = step.pc
    /\ upstream' = step.upstream

\* A request arrives at one of the routes of one of the two backends.
Receive ==
    /\ srvPc \in {"listening", "returned", "caught", "raised"}
    /\ \E v \in Variants, ep \in Endpoints, p \in Prompts, c \in CurrentCodes :
        /\ ep # "modify-code" => c = "strings"
        /\ variant' = v
        /\ endpoint' = ep
        /\ prompt' = p
        /\ currentCode' = c
    /\ srvPc' = "received"
    /\ res' = NewResponse
    /\ upstream' = <<>>
    /\ aiResponseText' = <<>>
    /\ validationResult' = NotValidated
    /\ stream' = <<>>
    /\ UNCHANGED clientVars

\* The handler from its start to its first await, or to its return.
CheckRequest ==
    /\ srvPc = "received"
    /\ Goes(checkRequest(variant, endpoint, prompt, currentCode, res, upstream))
    /\ UNCHANGED <<variant, endpoint, prompt, currentCode, aiResponseText,
                   validationResult, stream>>
    /\ UNCHANGED clientVars

\* await validatePrompt(prompt) resolves, and the handler goes on to its next
\* await or to its return.
ValidatorResponds ==
    /\ srvPc = "validating"
    /\ \E outcome \in ValidatorOutcomes :
        /\ aiResponseText' = outcome.text
        /\ validationResult' = validatePrompt(variant, outcome)
        /\ Goes(IF endpoint = "validate-prompt" THEN answerValidation(res, upstream)
                ELSE afterValidation(variant, validatePrompt(variant, outcome),
                                     res, upstream))
    /\ UNCHANGED <<variant, endpoint, prompt, currentCode, stream>>
    /\ UNCHANGED clientVars

\* The call that opens the generation stream resolves.
StreamOpens ==
    /\ srvPc = "opening"
    /\ \E events \in Streams(variant) : stream' = events
    /\ srvPc' = "streaming"
    /\ UNCHANGED <<variant, endpoint, prompt, currentCode, res, upstream, aiResponseText,
                   validationResult>>
    /\ UNCHANGED clientVars

\* The call that opens the generation stream throws: the catch block.
StreamRefused ==
    /\ srvPc = "opening"
    /\ res' = streamCatch(variant, res)
    /\ srvPc' = "caught"
    /\ UNCHANGED <<variant, endpoint, prompt, currentCode, upstream, aiResponseText,
                   validationResult, stream>>
    /\ UNCHANGED clientVars

\* One turn of the for await loop: a text is written; an event without text
\* is passed over; a block is reported in the stream, the loop is left and
\* the response ended.
StreamEvent ==
    /\ srvPc = "streaming"
    /\ stream # <<>>
    /\ IF Head(stream).type = "block"
       THEN /\ res' = end(write(res, BlockedObject), <<>>)
            /\ srvPc' = "returned"
            /\ stream' = stream
       ELSE /\ res' = IF Head(stream).type = "text" THEN write(res, Head(stream).text)
                      ELSE res
            /\ srvPc' = srvPc
            /\ stream' = Tail(stream)
    /\ UNCHANGED <<variant, endpoint, prompt, currentCode, upstream, aiResponseText,
                   validationResult>>
    /\ UNCHANGED clientVars

\* The stream is exhausted: res.end().
StreamEnds ==
    /\ srvPc = "streaming"
    /\ stream = <<>>
    /\ res' = end(res, <<>>)
    /\ srvPc' = "returned"
    /\ UNCHANGED <<variant, endpoint, prompt, currentCode, upstream, aiResponseText,
                   validationResult, stream>>
    /\ UNCHANGED clientVars

\* The stream throws instead of yielding: the catch block.
StreamThrows ==
    /\ srvPc = "streaming"
    /\ res' = streamCatch(variant, res)
    /\ srvPc' = "caught"
    /\ UNCHANGED <<variant, endpoint, prompt, currentCode, upstream, aiResponseText,
                   validationResult, stream>>
    /\ UNCHANGED clientVars

ServerNext ==
    \/ Receive
    \/ CheckRequest
    \/ ValidatorResponds
    \/ StreamOpens
    \/ StreamRefused
    \/ StreamEvent
    \/ StreamEnds
    \/ StreamThrows

ServerSpec == Init /\ [][ServerNext]_vars

Next ==
    \/ Submit
    \/ RespondNotOk
    \/ RespondThrows
    \/ RespondOk
    \/ ReadChunk
    \/ ReadDone
    \/ ReadFail
    \/ ChatType
    \/ ChatSubmit
    \/ ChatRespondNotOk
    \/ ChatRespondThrows
    \/ ChatRespondOk
    \/ ChatReadChunk
    \/ ChatReadDone
    \/ ChatReadFail

Spec == Init /\ [][Next]_vars

\* A step by which a pending fetch settles or a pending read fails. A read
\* that reports done is enabled exactly when a read that rejects is (the
\* handler is reading), and either ends the reading, so weak fairness of
\* these steps excludes just the runs in which a fetch never settles or a
\* chunk source neither ends nor fails.
Settles ==
    \/ RespondNotOk \/ RespondThrows \/ RespondOk
    \/ ReadFail
    \/ ChatRespondNotOk \/ ChatRespondThrows \/ ChatRespondOk
    \/ ChatReadFail

\* The client when every fetch is answered and every chunk source ends or
\* fails.
LiveSpec == Spec /\ WF_vars(Settles)

\* ---------------------------------------------------------------- claims

\* The displayed value of a field, now and after the step.
shown(f) == CASE f = "html" -> html [] f = "css" -> css [] f = "js" -> js

shownNext(f) == CASE f = "html" -> html' [] f = "css" -> css' [] f = "js" -> js'

\* At least one chunk has been processed and the loop has not ended.
Streaming == pc = "reading" /\ accumulatedJson # <<>>

\* A step of the chunk loop that processes a chunk.
ChunkStep == pc = "reading" /\ pc' = "reading" /\ accumulatedJson' # accumulatedJson

\* The parsed text is a flat object whose members are all strings and which
\* has the keys html, css and js.
FlatDocument(parsed) ==
    /\ parsed.ok
    /\ parsed.val.t = "obj"
    /\ \A n \in 1..Len(parsed.val.members) : parsed.val.members[n].t = "str"
    /\ \A f \in Fields : Prop(parsed.val, KeyChars(f)) # Undefined

\* The three displayed fields are those of the parsed document.
ShowsDocument(parsed) == \A f \in Fields : shown(f) = Prop(parsed.val, KeyChars(f))

\* The scan from valueStart accepts the quote at index i (0-based).
AcceptsAt(buf, i) == isUnescapedQuote(buf, i) /\ looksLikeEnd(buf, i)

\* The scan from valueStart reaches the end of the buffer accepting nothing.
NoTerminator(buf, valueStart) == \A i \in valueStart..(Len(buf) - 1) : ~AcceptsAt(buf, i)

\* The index after the opening quote of the last place where the quoted key, a
\* colon, any white space and a quote stand in buf; -1 when there is none.
KeyOpensAt(buf, key, at) ==
    /\ OccursAt(buf, <<"\"">> \o KeyChars(key) \o <<"\"", ":">>, at)
    /\ skipWs(buf, at + Len(KeyChars(key)) + 4) <= Len(buf)
    /\ buf[skipWs(buf, at + Len(KeyChars(key)) + 4)] = "\""

LastKeyOpening(buf, key) ==
    IF \E at \in 0..Len(buf) : KeyOpensAt(buf, key, at)
    THEN skipWs(buf, (CHOOSE at \in 0..Len(buf) :
                        /\ KeyOpensAt(buf, key, at)
                        /\ \A b \in (at + 1)..Len(buf) : ~KeyOpensAt(buf, key, b))
                     + Len(KeyChars(key)) + 4)
    ELSE -1

\* C1: when the buffer is exactly a well-formed flat document with string
\* values for html, css and js, each displayed field is the string JSON.parse
\* reads under that key.
C1_RoundTrip ==
    (Streaming /\ FlatDocument(JSONparse(accumulatedJson)))
        => ShowsDocument(JSONparse(accumulatedJson))

\* C2: when the buffer holds the quoted key, a colon, optional white space and
\* an opening quote, the value extracted is the one that starts right after
\* the opening quote of the last such place.
C2_KeyLocation ==
    Streaming =>
        \A f \in Fields :
            LastKeyOpening(accumulatedJson, f) # -1
                => shown(f) = Str(valueFrom(accumulatedJson,
                                            LastKeyOpening(accumulatedJson, f)))

\* C3: when the value start has been located and the scan accepts no
\* terminator up to the end of the buffer, the value shown is the escape
\* resolution of the whole span from the value start to the end of the buffer,
\* and it is empty when the buffer ends right after the opening quote.
C3_UnterminatedSpan ==
    Streaming =>
        \A f \in Fields :
            (/\ valueStartIndex(f, accumulatedJson) # -1
             /\ NoTerminator(accumulatedJson, valueStartIndex(f, accumulatedJson)))
                => /\ shown(f) = Str(resolveEscapes(
                                        Sub(accumulatedJson,
                                            valueStartIndex(f, accumulatedJson),
                                            Len(accumulatedJson))))
                   /\ (valueStartIndex(f, accumulatedJson) = Len(accumulatedJson)
                        => shown(f) = Str(<<>>))

\* C3 witness: the html value has been located, is unterminated and is shown
\* with its two characters.
C3_Witness ==
    /\ Streaming
    /\ valueStartIndex("html", accumulatedJson) # -1
    /\ NoTerminator(accumulatedJson, valueStartIndex("html", accumulatedJson))
    /\ html = Str(<<"a", "b">>)

\* The first unescaped quote from valueStart on that has a comma or a closing
\* brace among the three characters after it; -1 when there is none.
WideAcceptsAt(buf, i) ==
    /\ isUnescapedQuote(buf, i)
    /\ \E n \in 1..3 : i + n < Len(buf) /\ buf[i + n + 1] \in {",", "}"}

FirstWideTerminator(buf, valueStart) ==
    IF \E i \in valueStart..(Len(buf) - 1) : WideAcceptsAt(buf, i)
    THEN CHOOSE i \in valueStart..(Len(buf) - 1) :
            WideAcceptsAt(buf, i) /\ \A b \in valueStart..(i - 1) : ~WideAcceptsAt(buf, b)
    ELSE -1

\* C4: an unescaped quote with a comma or closing brace among the next three
\* characters ends the value: the value shown is that of the span from the
\* value start to the first such quote.
C4_Lookahead ==
    Streaming =>
        \A f \in Fields :
            (/\ valueStartIndex(f, accumulatedJson) # -1
             /\ FirstWideTerminator(accumulatedJson,
                                    valueStartIndex(f, accumulatedJson)) # -1)
                => shown(f) = Str(resolveEscapes(
                                    Sub(accumulatedJson,
                                        valueStartIndex(f, accumulatedJson),
                                        FirstWideTerminator(accumulatedJson,
                                            valueStartIndex(f, accumulatedJson)))))

\* The number of consecutive backslashes that end at index i (0-based).
RECURSIVE BackslashRun(_, _)
BackslashRun(buf, i) ==
    IF i >= 0 /\ buf[i + 1] = "\\" THEN 1 + BackslashRun(buf, i - 1) ELSE 0

\* A quote at i behind an even number of backslashes, with a comma or closing
\* brace right after it.
ParityAcceptsAt(buf, i) ==
    /\ buf[i + 1] = "\""
    /\ BackslashRun(buf, i - 1) % 2 = 0
    /\ looksLikeEnd(buf, i)

FirstParityTerminator(buf, valueStart) ==
    IF \E i \in valueStart..(Len(buf) - 1) : ParityAcceptsAt(buf, i)
    THEN CHOOSE i \in valueStart..(Len(buf) - 1) :
            ParityAcceptsAt(buf, i) /\ \A b \in valueStart..(i - 1) : ~ParityAcceptsAt(buf, b)
    ELSE -1

\* C5: a quote behind an even number of backslashes is unescaped and, with a
\* comma or closing brace after it, ends the value; a quote behind an odd
\* number does not: the value shown is that of the span up to the first quote
\* of the first kind.
C5_EscapedQuote ==
    Streaming =>
        \A f \in Fields :
            (/\ valueStartIndex(f, accumulatedJson) # -1
             /\ FirstParityTerminator(accumulatedJson,
                                      valueStartIndex(f, accumulatedJson)) # -1)
                => shown(f) = Str(resolveEscapes(
                                    Sub(accumulatedJson,
                                        valueStartIndex(f, accumulatedJson),
                                        FirstParityTerminator(accumulatedJson,
                                            valueStartIndex(f, accumulatedJson)))))

\* The scan of a field's value in buf has accepted a terminator.
TerminatorAccepted(f, buf) ==
    /\ valueStartIndex(f, buf) # -1
    /\ ~NoTerminator(buf, valueStartIndex(f, buf))

\* C6: once the scan of a field has accepted a terminator, a chunk that brings
\* no later occurrence of the field's key pattern leaves the value shown for
\* the field as it is.
C6_Convergence ==
    [][ChunkStep =>
        \A f \in Fields :
            (/\ TerminatorAccepted(f, accumulatedJson)
             /\ lastIndexOf(accumulatedJson', keyPattern(f))
                    = lastIndexOf(accumulatedJson, keyPattern(f)))
                => shownNext(f) = shown(f)]_vars

\* C6 witness: the html value was terminated more than one chunk ago and is
\* still shown while the css value is being read.
C6_Witness ==
    /\ Streaming
    /\ TerminatorAccepted("html", accumulatedJson)
    /\ ~TerminatorAccepted("css", accumulatedJson)
    /\ html = Str(<<"a", "\n", "b">>)
    /\ css = Str(<<"c">>)

\* C7: in a step of the chunk loop a displayed field changes exactly when the
\* value extracted from the new buffer differs from the one held, and after
\* the step every displayed field is the extraction over the new buffer.
C7_Coalescing ==
    [][ChunkStep =>
        \A f \in Fields :
            /\ (shownNext(f) # shown(f))
                <=> (Str(extractPartialValue(f, accumulatedJson')) # shown(f))
            /\ shownNext(f) = Str(extractPartialValue(f, accumulatedJson'))]_vars

\* C7 witness: all three fields have been extracted and shown, the js value
\* last, the html value unchanged since its terminator.
C7_Witness ==
    /\ Streaming
    /\ html = Str(<<"a", "b">>)
    /\ css = Str(<<"c">>)
    /\ js = Str(<<"j">>)
    /\ accumulatedJson = body

\* The buffer of the coalescing example: the html key opened, then a, b and
\* the closing quote.
CompletingBuffer == <<"{">> \o JsonKey("html", <<>>) \o <<"a", "b", "\"">>

\* The chunk is the one closing quote of a field's value: the value start has
\* been located (by the key pattern of the code or by the quoted key, colon,
\* white space and quote), nothing has ended the value, and a quote that no
\* backslash precedes arrives alone.
ClosingQuoteStep(f) ==
    /\ ChunkStep
    /\ accumulatedJson # <<>>
    /\ accumulatedJson' = Append(accumulatedJson, "\"")
    /\ accumulatedJson[Len(accumulatedJson)] # "\\"
    /\ \/ /\ valueStartIndex(f, accumulatedJson) # -1
          /\ valueStartIndex(f, accumulatedJson) < Len(accumulatedJson)
          /\ NoTerminator(accumulatedJson, valueStartIndex(f, accumulatedJson))
       \/ /\ LastKeyOpening(accumulatedJson, f) # -1
          /\ LastKeyOpening(accumulatedJson, f) < Len(accumulatedJson)
          /\ NoTerminator(accumulatedJson, LastKeyOpening(accumulatedJson, f))

\* C8: over the buffers that open html, add a, add b and add the closing quote,
\* html is shown as ab once the closing quote has come, and a chunk that adds
\* only the closing quote of a value changes no displayed field.
C8_CompletingValue ==
    [][/\ (ChunkStep /\ accumulatedJson' = CompletingBuffer) => html' = Str(<<"a", "b">>)
       /\ \A f \in Fields : ClosingQuoteStep(f) => shownNext(f) = shown(f)]_vars

\* The final buffer is a fenced block whose interior is a well-formed document.
FencedDocument(text) ==
    /\ codeBlockMatches(trim(text))
    /\ FlatDocument(JSONparse(codeBlockGroup(trim(text))))

\* C9: when the final buffer is a fenced block (with or without the json tag)
\* around a well-formed document, the request ends in success with the three
\* fields of the fenced interior.
C9_FenceStripping ==
    (pc = "done" /\ FencedDocument(accumulatedJson))
        => /\ success
           /\ error = Null
           /\ ShowsDocument(JSONparse(codeBlockGroup(trim(accumulatedJson))))

\* The span from the first opening brace to the last closing brace of text.
OuterBraces(text) == braceSpan(text, indexOf(text, <<"{">>), lastIndexOf(text, <<"}">>))

\* The final buffer is no fenced block and holds a well-formed document with
\* prose before it, after it or both.
ProsedDocument(text) ==
    /\ ~codeBlockMatches(trim(text))
    /\ OuterBraces(text) # text
    /\ FlatDocument(JSONparse(OuterBraces(text)))

\* C10: when the final buffer is no fenced block and holds a well-formed
\* document between prose, the request ends in success with the three fields of
\* the span from the first opening brace to the last closing brace.
C10_ProseStripping ==
    (pc = "done" /\ ProsedDocument(accumulatedJson))
        => /\ success
           /\ error = Null
           /\ ShowsDocument(JSONparse(OuterBraces(accumulatedJson)))

\* ------------------------------------------------- claims of final recovery

\* The parsed text is an object with a member of the given name.
HasKey(parsed, key) ==
    /\ parsed.ok
    /\ parsed.val.t = "obj"
    /\ \E n \in 1..Len(parsed.val.members) : parsed.val.members[n].k = key

\* C11: whenever the object parsed from the final buffer has an error key,
\* whatever the value and whether or not html, css and js are there too, the
\* request ends in the domain error that carries the value (Generation Error
\* for a generation, Modification Error for a modification), never in success
\* and never in a malformed-document failure.
C11_ErrorPrecedence ==
    /\ (pc = "done" /\ HasKey(JSONparse(accumulatedJson), ErrorKey))
        => /\ ~success
           /\ error = Message("Generation Error: ",
                              templateString(Prop(JSONparse(accumulatedJson).val, ErrorKey)))
    /\ (chatPc = "done" /\ HasKey(JSONparse(chatAccumulatedJson), ErrorKey))
        => /\ ~chatSuccess
           /\ chatError = Message("Modification Error: ",
                                  templateString(Prop(JSONparse(chatAccumulatedJson).val,
                                                      ErrorKey)))

\* The parsed text is an object whose html, css and js are all strings.
AllStrings(parsed) ==
    /\ parsed.ok
    /\ parsed.val.t = "obj"
    /\ \A f \in Fields : Prop(parsed.val, KeyChars(f)).t = "str"

\* The step in which handlePromptSubmit, and the one in which
\* handleChatSubmit, runs its final recovery.
FinalStep == pc = "reading" /\ pc' = "done"

ChatFinalStep == chatPc = "reading" /\ chatPc' = "done"

\* No displayed field changes in the step.
FieldsKept == html' = html /\ css' = css /\ js' = js

\* C12: final recovery succeeds only when the parsed object has html, css and
\* js all present and all strings; when one of them is absent or is a number,
\* a boolean, null, an object or an array, the request ends in a failure and
\* no displayed field is replaced.
C12_RequiredKeys ==
    [][/\ (FinalStep /\ ~AllStrings(JSONparse(accumulatedJson)))
            => (~success' /\ error' # Null /\ FieldsKept)
       /\ (ChatFinalStep /\ ~AllStrings(JSONparse(chatAccumulatedJson)))
            => (~chatSuccess' /\ chatError' # Null /\ FieldsKept)]_vars

\* The text has no opening brace with a closing brace after it.
NoBracePair(text) ==
    ~(/\ indexOf(text, <<"{">>) # -1
      /\ lastIndexOf(text, <<"}">>) > indexOf(text, <<"{">>))

\* e is a non-empty prefix of text of at most ExcerptLen characters, and not
\* the whole of a longer text.
BoundedExcerpt(e, text) ==
    /\ e # <<>>
    /\ Len(e) <= Min(Len(text), ExcerptLen)
    /\ e = SubSeq(text, 1, Len(e))

\* The excerpt inside the message parseJsonResponse throws.
ThrownExcerpt(thrown) == SubSeq(thrown, 2, Len(thrown) - 1)

\* C13: for every final buffer without a pair of braces, the empty one
\* included, recovery ends in a failure whose diagnostic excerpt is a non-empty
\* prefix of the buffer of at most 200 characters: in the handlers, where the
\* error message is the failure, and in parseJsonResponse, where the thrown
\* message is.
C13_Unrecoverable ==
    /\ (pc = "done" /\ NoBracePair(accumulatedJson))
        => /\ ~success
           /\ error # Null
           /\ BoundedExcerpt(error.detail, accumulatedJson)
           /\ ~parseJsonResponse(accumulatedJson).ok
           /\ BoundedExcerpt(ThrownExcerpt(parseJsonResponse(accumulatedJson).thrown),
                             accumulatedJson)
    /\ (chatPc = "done" /\ NoBracePair(chatAccumulatedJson))
        => /\ ~chatSuccess
           /\ chatError # Null
           /\ BoundedExcerpt(chatError.detail, chatAccumulatedJson)

\* The displayed fields are set from the parsed document: each key is there,
\* and a string value is shown as it is.
SetFrom(parsed) ==
    \A f \in Fields :
        /\ Prop(parsed.val, KeyChars(f)) # Undefined
        /\ Prop(parsed.val, KeyChars(f)).t = "str" => shown(f) = Prop(parsed.val, KeyChars(f))

\* Exactly one of two holds.
ExactlyOne(a, b) == (a \/ b) /\ ~(a /\ b)

\* C14: a request whose stream has reached its end has exactly one outcome:
\* success, with the three fields set from the parsed document and the error
\* null, or failure, with an error message that is not null. The handler has
\* then returned through its finally block.
C14_SingleOutcome ==
    /\ pc = "done"
        => /\ ExactlyOne(success /\ error = Null /\ SetFrom(JSONparse(accumulatedJson)),
                         ~success /\ error # Null)
           /\ ~isLoading
    /\ chatPc = "done"
        => /\ ExactlyOne(chatSuccess /\ chatError = Null
                            /\ SetFrom(JSONparse(chatAccumulatedJson)),
                         ~chatSuccess /\ chatError # Null)
           /\ ~isChatLoading

\* C14 witness: a modification has ended in success and the fields are those
\* of the document it streamed.
C14_Witness ==
    /\ chatPc = "done"
    /\ chatSuccess
    /\ chatError = Null
    /\ html = Str(<<"a">>)
    /\ css = Str(<<"c">>)
    /\ js = Str(<<"j">>)

\* After the step the displayed fields are exactly those of the parsed
\* document.
ShowsDocumentNext(parsed) == \A f \in Fields : shownNext(f) = Prop(parsed.val, KeyChars(f))

ReadRaises == pc = "reading" /\ pc' = "failed"

ChatReadRaises == chatPc = "reading" /\ chatPc' = "failed"

\* The parsed text is a document of three strings without an error key: what
\* final recovery turns into a success.
Recoverable(parsed) == AllStrings(parsed) /\ ~HasKey(parsed, ErrorKey)

\* C16: when a read raises after zero or more chunks, the final recovery still
\* runs on the buffer accumulated so far instead of the buffer being dropped:
\* a buffer that holds a whole document ends the request in success with the
\* document shown.
C16_TransportRecovers ==
    [][/\ (ReadRaises /\ Recoverable(JSONparse(accumulatedJson)))
            => (success' /\ error' = Null /\ ShowsDocumentNext(JSONparse(accumulatedJson)))
       /\ (ChatReadRaises /\ Recoverable(JSONparse(chatAccumulatedJson)))
            => (chatSuccess' /\ chatError' = Null
                /\ ShowsDocumentNext(JSONparse(chatAccumulatedJson)))]_vars

\* The stream has ended early: acc is a proper prefix of a body that is a
\* well-formed JSON text.
Truncated(acc, whole) == Len(acc) < Len(whole) /\ JSONparse(whole).ok

\* C17: when the chunk source reports done after any number of chunks, none
\* and mid-document included, the final recovery runs on exactly the text
\* accumulated so far: a buffer that holds a whole document ends in success
\* with the document shown whatever the rest of the body would have been, and a
\* truncated buffer ends in the reported failure of the parse with the fields
\* as they were.
C17_EarlyEnd ==
    [][/\ (FinalStep /\ Recoverable(JSONparse(accumulatedJson)))
            => (success' /\ error' = Null /\ ShowsDocumentNext(JSONparse(accumulatedJson)))
       /\ (FinalStep /\ Truncated(accumulatedJson, body))
            => /\ ~success'
               /\ error' = Message("Failed to process generated code.", <<>>)
               /\ FieldsKept
               /\ ~isLoading'
       /\ (ChatFinalStep /\ Recoverable(JSONparse(chatAccumulatedJson)))
            => (chatSuccess' /\ chatError' = Null
                /\ ShowsDocumentNext(JSONparse(chatAccumulatedJson)))
       /\ (ChatFinalStep /\ Truncated(chatAccumulatedJson, chatBody))
            => /\ ~chatSuccess'
               /\ chatError' = Message("Failed to process the modified code (invalid format).",
                                       <<>>)
               /\ FieldsKept
               /\ ~isChatLoading']_vars

\* C17 witness: the stream of the plain document ended after the a of its html
\* value, and the request has ended in the failure of the parse.
C17_Witness ==
    /\ pc = "done"
    /\ body = PlainDocument
    /\ accumulatedJson = <<"{">> \o JsonKey("html", <<>>) \o <<"a">>
    /\ ~success
    /\ error = Message("Failed to process generated code.", <<>>)
    /\ ~isLoading

\* ----------------------------------------------- claims of the extraction

\* A step of the chunk loop of handleChatSubmit that processes a chunk.
ChatChunkStep ==
    chatPc = "reading" /\ chatPc' = "reading" /\ chatAccumulatedJson' # chatAccumulatedJson

\* At least one chunk of the modification has been processed and its loop has
\* not ended.
ChatStreaming == chatPc = "reading" /\ chatAccumulatedJson # <<>>

\* The values shown are strings, and the empty string for every field whose
\* key pattern does not occur in buf.
TotalOver(buf) ==
    \A f \in Fields :
        /\ shown(f).t = "str"
        /\ shown(f).members = <<>>
        /\ lastIndexOf(buf, keyPattern(f)) = -1 => shown(f) = Str(<<>>)

\* C18: for every field and every buffer the chunk loop comes to, cut at any
\* place or malformed, the extraction gives a string, and the empty string when
\* the key pattern does not occur; every chunk up to the end of the stream is
\* processed this way.
C18_TotalExtraction ==
    /\ Streaming => TotalOver(accumulatedJson)
    /\ ChatStreaming => TotalOver(chatAccumulatedJson)

\* C18 witness: the loop stands in the middle of a body that is no JSON, with
\* no key pattern seen and every field empty.
C18_Witness ==
    /\ Streaming
    /\ body \in Fenced
    /\ Len(accumulatedJson) < Len(body)
    /\ \A f \in Fields : lastIndexOf(accumulatedJson, keyPattern(f)) = -1
    /\ html = Str(<<>>)
    /\ css = Str(<<>>)
    /\ js = Str(<<>>)

\* The span of a field's value in buf: from the value start to the index the
\* scan ends at, to the end of the buffer when the scan never runs.
SpanEnd(buf, valueStart) ==
    IF scanValue(buf, valueStart, 0) = -1 THEN Len(buf) ELSE scanValue(buf, valueStart, 0)

ValueSpan(f, buf) == Sub(buf, valueStartIndex(f, buf), SpanEnd(buf, valueStartIndex(f, buf)))

\* Reading span as the interior of a JSON string: the characters up to the
\* quote put after it.
AsInterior(span) == parseStringBody(Append(span, "\""), 1, <<>>)

\* span is a valid interior of a JSON string: reading it comes to the quote put
\* after it and not to a quote or a fault before.
ValidInterior(span) == AsInterior(span).ok /\ AsInterior(span).pos = Len(span) + 2

\* The string a valid interior stands for.
Decoded(span) == AsInterior(span).val.v

\* span with every raw line feed and carriage return written as its escape.
LineBreaksEscaped(span) ==
    replaceAll(replaceAll(span, "\n", <<"\\", "n">>), "\r", <<"\\", "r">>)

\* What the claim as first stated says is shown for a span.
ResolvedStrictly(span) == IF ValidInterior(span) THEN Decoded(span) ELSE span

\* What the amended claim says is shown for a span.
ResolvedLeniently(span) ==
    IF includes(span, <<"\"", ",">>) THEN span
    ELSE IF ValidInterior(LineBreaksEscaped(span)) THEN Decoded(LineBreaksEscaped(span))
    ELSE span

\* C19 as first stated: the value shown for a located field is the JSON-string
\* decoding of its span when the span is a valid interior of a JSON string, and
\* the raw span otherwise.
C19_EscapeFallback_Original ==
    /\ Streaming =>
        \A f \in Fields :
            valueStartIndex(f, accumulatedJson) # -1
                => shown(f) = Str(ResolvedStrictly(ValueSpan(f, accumulatedJson)))
    /\ ChatStreaming =>
        \A f \in Fields :
            valueStartIndex(f, chatAccumulatedJson) # -1
                => shown(f) = Str(ResolvedStrictly(ValueSpan(f, chatAccumulatedJson)))

\* C19 as amended: a span that holds quote-comma is shown raw; any other span
\* is shown decoded when, with its raw line feeds and carriage returns written
\* as escapes, it is a valid interior of a JSON string, and raw otherwise, no
\* character dropped or altered.
C19_EscapeFallback ==
    /\ Streaming =>
        \A f \in Fields :
            valueStartIndex(f, accumulatedJson) # -1
                => shown(f) = Str(ResolvedLeniently(ValueSpan(f, accumulatedJson)))
    /\ ChatStreaming =>
        \A f \in Fields :
            valueStartIndex(f, chatAccumulatedJson) # -1
                => shown(f) = Str(ResolvedLeniently(ValueSpan(f, chatAccumulatedJson)))

\* C19 witness: the html span is a raw line feed and the escape of a tab; it
\* is no valid interior as it stands and is shown decoded, line feed and tab.
C19_Witness ==
    /\ Streaming
    /\ valueStartIndex("html", accumulatedJson) # -1
    /\ ValueSpan("html", accumulatedJson) = <<"\n", "\\", "t">>
    /\ ~ValidInterior(ValueSpan("html", accumulatedJson))
    /\ html = Str(<<"\n", "\t">>)

\* The two characters quote and comma.
QuoteComma == <<"\"", ",">>

\* C20: whenever the span of a located field holds quote-comma, the value
\* shown is the span as it stands in the buffer, no escape resolved.
C20_AmbiguousStaysRaw ==
    /\ Streaming =>
        \A f \in Fields :
            (/\ valueStartIndex(f, accumulatedJson) # -1
             /\ includes(ValueSpan(f, accumulatedJson), QuoteComma))
                => shown(f) = Str(ValueSpan(f, accumulatedJson))
    /\ ChatStreaming =>
        \A f \in Fields :
            (/\ valueStartIndex(f, chatAccumulatedJson) # -1
             /\ includes(ValueSpan(f, chatAccumulatedJson), QuoteComma))
                => shown(f) = Str(ValueSpan(f, chatAccumulatedJson))

\* C20 witness: the html span holds an escaped quote and a comma after it, and
\* is shown with its backslash.
C20_Witness ==
    /\ Streaming
    /\ valueStartIndex("html", accumulatedJson) # -1
    /\ ValueSpan("html", accumulatedJson) = <<"a", "\\", "\"", ",", "b">>
    /\ html = Str(<<"a", "\\", "\"", ",", "b">>)

\* ---------------------------------------------------------------- C21..C30

\* The candidate of parseJsonResponse: its argument trimmed, with the fence or
\* the text around the outer braces taken off.
Candidate == stripWrapping(trim(aiResponseText))

\* validatePrompt of index-gemini.ts has been through parseJsonResponse on an
\* answer whose candidate begins with the token json and has an opening brace.
StrayToken ==
    /\ variant = "index-gemini"
    /\ aiResponseText # <<>>
    /\ startsWith(Candidate, JsonTag)
    /\ includes(Candidate, <<"{">>)

\* The candidate is the token json and then a well-formed object.
TokenThenObject ==
    /\ JSONparse(Drop(Candidate, Len(JsonTag))).ok
    /\ JSONparse(Drop(Candidate, Len(JsonTag))).val.t = "obj"

\* text is what candidate has from its first opening brace on.
FromFirstBrace(text, candidate) ==
    /\ text # <<>>
    /\ Head(text) = "{"
    /\ text = Drop(candidate, Len(candidate) - Len(text))
    /\ ~includes(SubSeq(candidate, 1, Len(candidate) - Len(text)), <<"{">>)

ShownFrom(buf) == \A f \in Fields : shown(f) = Str(extractPartialValue(f, buf))

IsPrefix(a, b) == Len(a) <= Len(b) /\ a = SubSeq(b, 1, Len(a))

\* C23: while a request reads its response the buffer is the chunks received
\* so far, joined in the order of arrival: a step that leaves the handler
\* reading or ends its reading keeps the old buffer as a prefix of the new
\* one, never shorter, and both are what the response has streamed up to
\* there; and the step that opens the reading starts from the empty buffer.
C23_AppendOnly ==
    [][/\ pc = "reading" =>
            /\ IsPrefix(accumulatedJson, accumulatedJson')
            /\ IsPrefix(accumulatedJson, body)
       /\ (pc # "reading" /\ pc' = "reading") => accumulatedJson' = <<>>
       /\ chatPc = "reading" =>
            /\ IsPrefix(chatAccumulatedJson, chatAccumulatedJson')
            /\ IsPrefix(chatAccumulatedJson, chatBody)
       /\ (chatPc # "reading" /\ chatPc' = "reading") => chatAccumulatedJson' = <<>>]_vars

\* C23 witness: the buffer holds more than one chunk and the stream has more.
C23_Witness ==
    /\ Streaming
    /\ Len(accumulatedJson) > MaxChunkLen
    /\ Len(accumulatedJson) < Len(body)

\* A streaming handler has reported a failure inside a stream that had begun:
\* the head went out with 200, and then either the catch block appended its
\* fragment or a chunk reported a block, the loop was left and the response
\* ended with events still to come.
StreamFailed ==
    /\ res.sentStatus = 200
    /\ res.finished
    /\ srvPc = "caught" \/ (srvPc = "returned" /\ stream # <<>>)

\* What handlePromptSubmit makes of a response body once the stream has ended:
\* the branch of its final JSON.parse, and the message of the error branch.
OutcomeOf(text) == finalBranch(JSONparse(text))

ReportedBy(text) == Prop(JSONparse(text).val, ErrorKey)

\* C24: when the backend reports a failure inside a stream that had begun,
\* the client that read the body to its end takes the error branch of its
\* final recovery, with the message the server wrote, also when text had
\* been written before the failure.
C24_FailureReachesUser ==
    StreamFailed =>
        /\ OutcomeOf(res.body) = "error"
        /\ ReportedBy(res.body) = Str(<<"x">>)

\* The request is one the route must refuse: the prompt is missing, no string
\* or blank, or on modify-code the current code is missing.
InvalidRequest ==
    \/ invalidPrompt(prompt)
    \/ endpoint = "modify-code" /\ missingCode(currentCode)

\* The handler has ended, by return or by an exception.
HandlerEnded == srvPc \in {"returned", "caught", "raised"}

\* The calls that send a whole response.
Sends(calls) == {n \in 1..Len(calls) : calls[n] \in {"send", "json"}}

\* C25: the handler of an invalid request has sent one 400 response and done
\* nothing else: no call to the model's API at any point, and on the response
\* only what makes that one answer, the status and the send or json (with the
\* type of index-gemini.ts), and no setHeader, write or end.
C25_InvalidAnsweredOnce ==
    (srvPc # "listening" /\ srvPc # "received" /\ InvalidRequest) =>
        /\ upstream = <<>>
        /\ res.sentStatus = 400
        /\ Cardinality(Sends(res.calls)) = 1
        /\ \A n \in 1..Len(res.calls) : res.calls[n] \notin {"setHeader", "write", "end"}
        /\ HandlerEnded

\* validatePrompt has returned in the handler of generate-code, called with a
\* prompt that passed the test of the request.
Validated ==
    /\ endpoint = "generate-code"
    /\ ~invalidPrompt(prompt)
    /\ upstream # <<>>
    /\ srvPc # "validating"

\* The validator did not give a verdict: the call threw, the answer had no
\* content, or its text does not parse even after the cleaning.
NoVerdict ==
    \/ aiResponseText = <<>>
    \/ variant = "index" /\ ~JSONparse(jsonString(aiResponseText)).ok
    \/ variant = "index-gemini" /\ ~parseJsonResponse(aiResponseText).ok

\* C26: in generate-code no header is set and the generation model is not
\* called unless validatePrompt returned valid as true; validatePrompt answers
\* a failed call, an empty answer and an answer that does not parse with valid
\* as false and a reason; and when valid is false the handler has sent one 400
\* and nothing of a stream.
C26_ValidationGates ==
    Validated =>
        /\ ("generation" \in { upstream[n] : n \in 1..Len(upstream) }
            \/ "setHeader" \in { res.calls[n] : n \in 1..Len(res.calls) })
                => validationResult.valid = True
        /\ NoVerdict => (validationResult.valid = False /\ Truthy(validationResult.reason))
        /\ validationResult.valid = False =>
            /\ res.sentStatus = 400
            /\ Cardinality(Sends(res.calls)) = 1
            /\ \A n \in 1..Len(res.calls) : res.calls[n] \notin {"setHeader", "write", "end"}

\* The handler of a request is between its start and its end.
InFlight(at) == at \in {"fetching", "reading"}

\* C27: isLoading is true exactly while handlePromptSubmit is between its
\* start and its end, and isChatLoading while handleChatSubmit is: set when
\* the request starts, reset on every way the handler ends, not set again but
\* by the start of a request; and when the fetch is answered and the chunk
\* source ends or fails, a flag that is set is reset later.
C27_LoadingLifecycle ==
    /\ [](isLoading <=> InFlight(pc))
    /\ [](isChatLoading <=> InFlight(chatPc))
    /\ [][(~isLoading /\ isLoading') => (pc' = "fetching" /\ pc # "fetching")]_vars
    /\ [][(~isChatLoading /\ isChatLoading')
            => (chatPc' = "fetching" /\ chatPc # "fetching")]_vars
    /\ isLoading ~> ~isLoading
    /\ isChatLoading ~> ~isChatLoading

\* C27 witness: a read failed after a chunk had come and the flag is reset.
C27_Witness ==
    /\ pc = "failed"
    /\ accumulatedJson # <<>>
    /\ ~isLoading
    /\ showEditor

\* C28: a step that starts a generation or a modification is taken only while
\* neither handler is between its start and its end, the two handlers are
\* never both in flight, and so a step of one chunk loop never meets a
\* request of the other kind that is still reading.
C28_OneInFlight ==
    [][/\ ((pc' = "fetching" /\ pc # "fetching") \/ (chatPc' = "fetching" /\ chatPc # "fetching"))
            => (~InFlight(pc) /\ ~InFlight(chatPc))
       /\ ~(InFlight(pc') /\ InFlight(chatPc'))
       /\ ChunkStep => ~InFlight(chatPc)
       /\ ChatChunkStep => ~InFlight(pc)]_vars

\* C28 witness: a modification streams after a generation that has ended, the
\* chat form disabled meanwhile.
C28_Witness ==
    /\ ChatStreaming
    /\ isChatLoading
    /\ ~isLoading
    /\ showEditor
    /\ ~chatFormEnabled

\* A step that ends a modification in failure: the response is not ok, the
\* fetch or a read rejects, or the final recovery does not succeed.
ChatFails ==
    /\ InFlight(chatPc)
    /\ \/ chatPc' \in {"rejected", "failed"}
       \/ chatPc' = "done" /\ ~chatSuccess'

\* C29: when a modification ends in failure the html, css and js shown are
\* those shown when the request started, which the request carried as
\* currentHtml, currentCss and currentJs.
C29_FailureKeepsCode ==
    [][ChatFails =>
        /\ html' = current.html
        /\ css' = current.css
        /\ js' = current.js]_vars

\* The key pattern of f is located in the buffer before the step and at the
\* same place after it, and what follows it has no backslash, so the value
\* has no escape sequence.
PlainValueGrowing(f) ==
    /\ valueStartIndex(f, accumulatedJson) # -1
    /\ valueStartIndex(f, accumulatedJson') = valueStartIndex(f, accumulatedJson)
    /\ ~includes(Drop(accumulatedJson', valueStartIndex(f, accumulatedJson)), <<"\\">>)

\* C30: in a step of the chunk loop the value shown for a field whose key
\* pattern has been located and whose value has no escape sequence is a
\* prefix of the value shown after the step: it never shrinks and never
\* loses characters at its end.
C30_OnlyGrows ==
    [][ChunkStep =>
        \A f \in Fields :
            PlainValueGrowing(f) => IsPrefix(shown(f).v, shownNext(f).v)]_vars

====
